---- MODULE Spec2Model ----
(***************************************************************************)
(* Resource-allocation ledger of the OS-concepts visualiser: Banker's      *)
(* algorithm, the single-request admission path and the batch allocation   *)
(* policies of concepts/deadlock/algorithms.py and                         *)
(* concepts/resource_allocation/algorithms.py, with the callers of app.py  *)
(* and of the two visualizers that construct the ledger.                   *)
(*                                                                         *)
(* Python lists are sequences (1-based here, 0-based in the source).       *)
(* An optional value (None or a list) is a sequence of length 0 or 1.      *)
(* Message strings that interpolate a pid are modelled by their fixed      *)
(* part; the pid is kept next to the message in the call record.           *)
(***************************************************************************)
EXTENDS Integers, Sequences, FiniteSets, TLC

VARIABLES
  processes,   \* the ledger's Process objects, in input order
  resources,   \* the ledger's Resource objects, in input order
  session,     \* who holds the ledger: one "route" request of app.py, a "gui"
               \* visualizer, or another "caller" that keeps it between calls
  built,       \* the ledger as it was constructed
  pre,         \* the ledger as it was when the last call was made
  last,        \* the last call: its name, its arguments and what it returned
  rr,          \* the locals of a round_robin_allocation call that is running
  wait_for_graph, \* the wait-for graph: its keys in insertion order, each with
                  \* the list of the processes it waits for
  threads,     \* the simulate_request invocations running on the ledger at the
               \* same time: each one's arguments, position and return value
  sync,        \* the ProducerConsumer or DiningPhilosophers object of
               \* synchronization/algorithms.py, with the processes passed to it
  sync_pre     \* that object as it was when the last call on it was made

vars == <<processes, resources, session, built, pre, last, rr, wait_for_graph, threads,
         sync, sync_pre>>

\* ------------------------------------------------------------------ bounds
\* Largest max_resources / allocated_resources entry of an input record.
MaxClaim == 1
\* Largest total_instances of an input resource record.
MaxTotal == 1
\* Largest entry of a request or release vector.
MaxReq == 1

\* Longest batch of requests handed to a batch policy.
MaxBatch == 1
\* Largest time_quantum handed to round_robin_allocation.
MaxQuantum == 1
\* Iterations of the round-robin loop that are followed; a call that needs more
\* is not followed further.
MaxIter == 4
\* Longest list of waited-for processes of a key of the wait-for graph.
MaxWaits == 2
\* wait_time and the starvation threshold range up to MaxWaitTime.
MaxWaitTime == 2

\* buffer_size ranges over 0..MaxBuffer.
MaxBuffer == 2
\* The items produced over the life of a buffer.
MaxItems == 3
\* Every blocked call appends its process to a waiting queue that nothing
\* bounds; calls are followed while the queues hold at most MaxBlocked.
MaxBlocked == 2
\* num_philosophers ranges over 2..MaxPhilosophers.
MaxPhilosophers == 3

\* The resource ids and the process ids of the input records, in input order.
RIDS == <<"R1", "R2">>
PIDS == <<"P0", "P1">>
PIDS3 == <<"P0", "P1", "P2">>
\* Scenario A of the specification: five processes, three resources.
RIDS_A == <<"A", "B", "C">>
PIDS_A == <<"P0", "P1", "P2", "P3", "P4">>
\* A process id that no input record carries.
UnknownPid == "PX"

Dims == 1..Len(RIDS)
Vectors(hi) == [Dims -> 0..hi]
\* One vector per process.
Matrices(pids, hi) == [1..Len(pids) -> Vectors(hi)]
\* priority and arrival_time of each process: only their order matters.
Ranks(pids) == [1..Len(pids) -> {0, 1}]
Zeros(pids) == [i \in 1..Len(pids) |-> 0]
\* The process ids a caller may name.
CallPids(procs) == {procs[i].pid : i \in 1..Len(procs)} \cup {UnknownPid}

\* ------------------------------------------------------------ Python idiom
None == <<>>
Some(x) == <<x>>

\* zip(a, b): the index range both sequences cover.
ZipDom(a, b) == 1..(IF Len(a) <= Len(b) THEN Len(a) ELSE Len(b))

Min(S) == CHOOSE x \in S : \A y \in S : x <= y

\* next((p for p in processes if p.pid == pid), None), as an index; 0 is None.
Lookup(procs, pid) ==
  LET hits == {i \in 1..Len(procs) : procs[i].pid = pid}
  IN IF hits = {} THEN 0 ELSE Min(hits)

\* [r.available_instances for r in resources]
Available(res) == [j \in 1..Len(res) |-> res[j].available_instances]

\* ------------------------------------------------------------- data model
\* Process.__init__: need is computed once, from max and the allocation given.
\* (`allocated_resources or [0] * len(max_resources)`: an absent or empty
\* allocation is the zero vector.)
NewProcess(pid, max_resources, allocated_resources, priority, arrival_time) ==
  LET alloc == IF allocated_resources = None \/ allocated_resources = Some(<<>>)
                 THEN [j \in 1..Len(max_resources) |-> 0]
                 ELSE allocated_resources[1]
  IN [pid |-> pid,
      max_resources |-> max_resources,
      allocated_resources |-> alloc,
      need_resources |-> [j \in ZipDom(max_resources, alloc) |-> max_resources[j] - alloc[j]],
      priority |-> priority,
      arrival_time |-> arrival_time,
      wait_time |-> 0]

\* Resource.__init__: every instance starts available, whatever the process
\* records say is already allocated.
NewResource(rid, total_instances) ==
  [rid |-> rid, total_instances |-> total_instances, available_instances |-> total_instances]

\* The loop body without need[i] -= amt.
GrantProcKeepNeed(p, amounts) ==
  [p EXCEPT !.allocated_resources =
              [j \in 1..Len(@) |-> IF j <= Len(amounts) THEN @[j] + amounts[j] ELSE @[j]]]

\* The loop body without resources[i].available_instances -= amt.
GrantResKeepAvailable(res, amounts) == res

\* The three in-place updates of an allocation loop body:
\* allocated[i] += amt; need[i] -= amt; resources[i].available_instances -= amt,
\* for i over enumerate(amounts).
GrantProc(p, amounts) ==
  [p EXCEPT !.allocated_resources =
              [j \in 1..Len(@) |-> IF j <= Len(amounts) THEN @[j] + amounts[j] ELSE @[j]],
            !.need_resources =
              [j \in 1..Len(@) |-> IF j <= Len(amounts) THEN @[j] - amounts[j] ELSE @[j]]]

GrantRes(res, amounts) ==
  [j \in 1..Len(res) |->
     IF j <= Len(amounts)
       THEN [res[j] EXCEPT !.available_instances = @ - amounts[j]]
       ELSE res[j]]

\* --------------------------------------------------------- Banker's algorithm
\* FirstEligible without the test of the finish flag.
FirstEligibleAny(procs, work, finish) ==
  LET ok == {i \in 1..Len(procs) :
               \A j \in 1..Len(procs[i].need_resources) :
                 procs[i].need_resources[j] <= work[j]}
  IN IF ok = {} THEN 0 ELSE Min(ok)

\* The for-loop of one pass: the first index, scanning from the start, of an
\* unfinished process whose need fits in work; 0 when the pass finds none.
FirstEligible(procs, work, finish) ==
  LET ok == {i \in 1..Len(procs) :
               /\ ~finish[i]
               /\ \A j \in 1..Len(procs[i].need_resources) :
                    procs[i].need_resources[j] <= work[j]}
  IN IF ok = {} THEN 0 ELSE Min(ok)

RECURSIVE BankersLoop(_, _, _, _)
\* The while-loop: one pass per iteration, which breaks at the first grant.
BankersLoop(procs, work, finish, safe_sequence) ==
  IF ~(Len(safe_sequence) < Len(procs))
    THEN [safe |-> TRUE, safe_sequence |-> Some(safe_sequence),
          message |-> "System is in safe state"]
    ELSE LET i == FirstEligible(procs, work, finish)
         IN IF i = 0
              THEN [safe |-> FALSE, safe_sequence |-> None,
                    message |-> "System is not in safe state - potential deadlock"]
              ELSE BankersLoop(procs,
                               [j \in 1..Len(work) |-> work[j] + procs[i].allocated_resources[j]],
                               [finish EXCEPT ![i] = TRUE],
                               Append(safe_sequence, procs[i].pid))

\* What a call leaves behind: its arguments' objects after the call (they are
\* mutated in place) and its return value.
Ret(procs, res, result) ==
  [processes |-> procs, resources |-> res, result |-> result, raised |-> None]

\* A call that ends in an uncaught exception: the objects as the call left
\* them when the exception was raised, no return value, and the exception.
Raise(procs, res, exception) ==
  [processes |-> procs, resources |-> res, result |-> None, raised |-> Some(exception)]

\* A vector with more entries than the ledger has resources: the indexed
\* updates of a loop over enumerate(amounts) raise IndexError at the first
\* entry past the end, after the entries before it were applied.
PastEnd(amounts, res) == Len(amounts) > Len(res)

Fits(p, work) ==
  \A j \in 1..Len(p.need_resources) : p.need_resources[j] <= work[j]

Plus(work, p) == [j \in 1..Len(work) |-> work[j] + p.allocated_resources[j]]

RECURSIVE SinglePass(_, _, _, _)
\* One pass over the processes, from index i on, with no second pass.
SinglePass(procs, work, i, safe_sequence) ==
  IF i > Len(procs)
    THEN IF Len(safe_sequence) = Len(procs)
           THEN [safe |-> TRUE, safe_sequence |-> Some(safe_sequence),
                 message |-> "System is in safe state"]
           ELSE [safe |-> FALSE, safe_sequence |-> None,
                 message |-> "System is not in safe state - potential deadlock"]
    ELSE IF Fits(procs[i], work)
           THEN SinglePass(procs, Plus(work, procs[i]), i + 1,
                           Append(safe_sequence, procs[i].pid))
           ELSE SinglePass(procs, work, i + 1, safe_sequence)

\* bankers_algorithm that never comes back to a process it has passed over.
bankers_single_pass(procs, res) ==
  Ret(procs, res, SinglePass(procs, Available(res), 1, <<>>))

RECURSIVE NoRestart(_, _, _, _, _, _)
\* The passes of a scan that goes on after a grant instead of breaking.
NoRestart(procs, work, finish, safe_sequence, i, found) ==
  IF Len(safe_sequence) = Len(procs)
    THEN [safe |-> TRUE, safe_sequence |-> Some(safe_sequence),
          message |-> "System is in safe state"]
  ELSE IF i > Len(procs)
    THEN IF found
           THEN NoRestart(procs, work, finish, safe_sequence, 1, FALSE)
           ELSE [safe |-> FALSE, safe_sequence |-> None,
                 message |-> "System is not in safe state - potential deadlock"]
  ELSE IF ~finish[i] /\ Fits(procs[i], work)
    THEN NoRestart(procs, Plus(work, procs[i]), [finish EXCEPT ![i] = TRUE],
                   Append(safe_sequence, procs[i].pid), i + 1, TRUE)
    ELSE NoRestart(procs, work, finish, safe_sequence, i + 1, found)

\* bankers_algorithm without the break after a grant.
bankers_no_restart(procs, res) ==
  Ret(procs, res,
      NoRestart(procs, Available(res), [i \in 1..Len(procs) |-> FALSE], <<>>, 1, FALSE))

RECURSIVE FinalWork(_, _, _)
\* The work vector when the while-loop of bankers_algorithm ends.
FinalWork(procs, work, finish) ==
  LET i == FirstEligible(procs, work, finish)
  IN IF i = 0
       THEN work
       ELSE FinalWork(procs, Plus(work, procs[i]), [finish EXCEPT ![i] = TRUE])

\* bankers_algorithm with work kept in the Resource objects themselves.
bankers_in_place(procs, res) ==
  LET work == FinalWork(procs, Available(res), [i \in 1..Len(procs) |-> FALSE])
  IN Ret(procs,
         [j \in 1..Len(res) |-> [res[j] EXCEPT !.available_instances = work[j]]],
         BankersLoop(procs, Available(res), [i \in 1..Len(procs) |-> FALSE], <<>>))

\* bankers_algorithm(processes, resources). work is a fresh list built from the
\* resources, so the arguments are only read.
bankers_algorithm(procs, res) ==
  Ret(procs, res,
      BankersLoop(procs, Available(res), [i \in 1..Len(procs) |-> FALSE], <<>>))

\* ------------------------------------------------- single-request admission
Denied(message) == [granted |-> FALSE, message |-> message]
Granted(message) == [granted |-> TRUE, message |-> message]

\* simulate_request with the tentative allocation made on the live objects
\* instead of on deep copies: an unsafe denial leaves the allocation behind.
simulate_request_nocopy(procs, res, process_id, request) ==
  LET k == Lookup(procs, process_id)
  IN IF k = 0
       THEN Ret(procs, res, Denied("Process not found"))
     ELSE IF \E j \in ZipDom(request, procs[k].need_resources) :
               request[j] > procs[k].need_resources[j]
       THEN Ret(procs, res, Denied("Request exceeds maximum claim"))
     ELSE IF \E j \in ZipDom(request, Available(res)) :
               request[j] > Available(res)[j]
       THEN Ret(procs, res, Denied("Request exceeds available resources"))
     ELSE LET temp_processes == [procs EXCEPT ![k] = GrantProc(@, request)]
              temp_resources == GrantRes(res, request)
          IN IF bankers_algorithm(temp_processes, temp_resources).result.safe
               THEN Ret(temp_processes, temp_resources, Granted("Request granted"))
               ELSE Ret(temp_processes, temp_resources,
                        Denied("Request would lead to unsafe state"))

\* simulate_request without the check of the request against the need.
simulate_request_noclaim(procs, res, process_id, request) ==
  LET k == Lookup(procs, process_id)
  IN IF k = 0
       THEN Ret(procs, res, Denied("Process not found"))
     ELSE IF \E j \in ZipDom(request, Available(res)) :
               request[j] > Available(res)[j]
       THEN Ret(procs, res, Denied("Request exceeds available resources"))
     ELSE LET temp_processes == [procs EXCEPT ![k] = GrantProc(@, request)]
              temp_resources == GrantRes(res, request)
          IN IF bankers_algorithm(temp_processes, temp_resources).result.safe
               THEN Ret(temp_processes, temp_resources, Granted("Request granted"))
               ELSE Ret(procs, res, Denied("Request would lead to unsafe state"))

\* simulate_request with the availability check made before the claim check.
simulate_request_swapped(procs, res, process_id, request) ==
  LET k == Lookup(procs, process_id)
  IN IF k = 0
       THEN Ret(procs, res, Denied("Process not found"))
     ELSE IF \E j \in ZipDom(request, Available(res)) :
               request[j] > Available(res)[j]
       THEN Ret(procs, res, Denied("Request exceeds available resources"))
     ELSE IF \E j \in ZipDom(request, procs[k].need_resources) :
               request[j] > procs[k].need_resources[j]
       THEN Ret(procs, res, Denied("Request exceeds maximum claim"))
     ELSE LET temp_processes == [procs EXCEPT ![k] = GrantProc(@, request)]
              temp_resources == GrantRes(res, request)
          IN IF bankers_algorithm(temp_processes, temp_resources).result.safe
               THEN Ret(temp_processes, temp_resources, Granted("Request granted"))
               ELSE Ret(procs, res, Denied("Request would lead to unsafe state"))

\* simulate_request with >= in place of > in the availability check.
simulate_request_strict(procs, res, process_id, request) ==
  LET k == Lookup(procs, process_id)
  IN IF k = 0
       THEN Ret(procs, res, Denied("Process not found"))
     ELSE IF \E j \in ZipDom(request, procs[k].need_resources) :
               request[j] > procs[k].need_resources[j]
       THEN Ret(procs, res, Denied("Request exceeds maximum claim"))
     ELSE IF \E j \in ZipDom(request, Available(res)) :
               request[j] >= Available(res)[j]
       THEN Ret(procs, res, Denied("Request exceeds available resources"))
     ELSE LET temp_processes == [procs EXCEPT ![k] = GrantProc(@, request)]
              temp_resources == GrantRes(res, request)
          IN IF bankers_algorithm(temp_processes, temp_resources).result.safe
               THEN Ret(temp_processes, temp_resources, Granted("Request granted"))
               ELSE Ret(procs, res, Denied("Request would lead to unsafe state"))

\* simulate_request whose commit loop leaves need_resources as it was.
simulate_request_noneed(procs, res, process_id, request) ==
  LET k == Lookup(procs, process_id)
  IN IF k = 0
       THEN Ret(procs, res, Denied("Process not found"))
     ELSE IF \E j \in ZipDom(request, procs[k].need_resources) :
               request[j] > procs[k].need_resources[j]
       THEN Ret(procs, res, Denied("Request exceeds maximum claim"))
     ELSE IF \E j \in ZipDom(request, Available(res)) :
               request[j] > Available(res)[j]
       THEN Ret(procs, res, Denied("Request exceeds available resources"))
     ELSE LET temp_processes == [procs EXCEPT ![k] = GrantProc(@, request)]
              temp_resources == GrantRes(res, request)
          IN IF bankers_algorithm(temp_processes, temp_resources).result.safe
               THEN Ret([procs EXCEPT ![k].allocated_resources =
                           [j \in 1..Len(@) |-> @[j] + request[j]]],
                        GrantRes(res, request),
                        Granted("Request granted"))
               ELSE Ret(procs, res, Denied("Request would lead to unsafe state"))

\* DeadlockAlgorithms.simulate_request
simulate_request(procs, res, process_id, request) ==
  LET k == Lookup(procs, process_id)
  IN IF k = 0
       THEN Ret(procs, res, Denied("Process not found"))
     ELSE IF \E j \in ZipDom(request, procs[k].need_resources) :
               request[j] > procs[k].need_resources[j]
       THEN Ret(procs, res, Denied("Request exceeds maximum claim"))
     ELSE IF \E j \in ZipDom(request, Available(res)) :
               request[j] > Available(res)[j]
       THEN Ret(procs, res, Denied("Request exceeds available resources"))
     ELSE IF PastEnd(request, res)
       \* the loop over the deep copies raises; the copies are dropped
       THEN Raise(procs, res, "IndexError")
     ELSE LET \* the deep copies, with the request applied to them
              temp_processes == [procs EXCEPT ![k] = GrantProc(@, request)]
              temp_resources == GrantRes(res, request)
          IN IF bankers_algorithm(temp_processes, temp_resources).result.safe
               THEN Ret([procs EXCEPT ![k] = GrantProc(@, request)],
                        GrantRes(res, request),
                        Granted("Request granted"))
               ELSE Ret(procs, res, Denied("Request would lead to unsafe state"))

\* simulate_request_bankers that commits whatever passes the two checks,
\* without the safety check of the copies.
simulate_request_unchecked(procs, res, process_id, request) ==
  LET k == Lookup(procs, process_id)
  IN IF k = 0
       THEN Ret(procs, res, Denied("Process not found"))
     ELSE IF \E j \in ZipDom(request, procs[k].need_resources) :
               request[j] > procs[k].need_resources[j]
       THEN Ret(procs, res, Denied("Request exceeds maximum claim"))
     ELSE IF \E j \in ZipDom(request, Available(res)) :
               request[j] > Available(res)[j]
       THEN Ret(procs, res, Denied("Request exceeds available resources"))
     ELSE Ret([procs EXCEPT ![k] = GrantProc(@, request)],
              GrantRes(res, request),
              Granted("Request granted"))

\* ResourceAllocationAlgorithms.simulate_request_bankers: the same code, in
\* the resource-allocation module.
simulate_request_bankers(procs, res, process_id, request) ==
  LET k == Lookup(procs, process_id)
  IN IF k = 0
       THEN Ret(procs, res, Denied("Process not found"))
     ELSE IF \E j \in ZipDom(request, procs[k].need_resources) :
               request[j] > procs[k].need_resources[j]
       THEN Ret(procs, res, Denied("Request exceeds maximum claim"))
     ELSE IF \E j \in ZipDom(request, Available(res)) :
               request[j] > Available(res)[j]
       THEN Ret(procs, res, Denied("Request exceeds available resources"))
     ELSE IF PastEnd(request, res)
       THEN Raise(procs, res, "IndexError")
     ELSE LET temp_processes == [procs EXCEPT ![k] = GrantProc(@, request)]
              temp_resources == GrantRes(res, request)
          IN IF bankers_algorithm(temp_processes, temp_resources).result.safe
               THEN Ret([procs EXCEPT ![k] = GrantProc(@, request)],
                        GrantRes(res, request),
                        Granted("Request granted"))
               ELSE Ret(procs, res, Denied("Request would lead to unsafe state"))

\* ---------------------------------------------------------------- detection
\* wait_for_graph.get(node, [])
Neighbors(graph, node) ==
  LET hits == {i \in 1..Len(graph) : graph[i].pid = node}
  IN IF hits = {} THEN <<>> ELSE graph[Min(hits)].waits_for

RECURSIVE has_cycle(_, _, _, _)
RECURSIVE VisitNeighbors(_, _, _, _, _)
\* The for-loop of has_cycle over the neighbors of node, from the n-th on, and
\* what follows it: rec_stack.remove(node); return False.
VisitNeighbors(graph, node, n, visited, rec_stack) ==
  LET nbrs == Neighbors(graph, node)
  IN IF n > Len(nbrs)
       THEN [cycle |-> FALSE, visited |-> visited, rec_stack |-> rec_stack \ {node}]
     ELSE IF nbrs[n] \notin visited
       THEN LET r == has_cycle(graph, nbrs[n], visited, rec_stack)
            IN IF r.cycle
                 THEN r
                 ELSE VisitNeighbors(graph, node, n + 1, r.visited, r.rec_stack)
     ELSE IF nbrs[n] \in rec_stack
       THEN [cycle |-> TRUE, visited |-> visited, rec_stack |-> rec_stack]
     ELSE VisitNeighbors(graph, node, n + 1, visited, rec_stack)

\* has_cycle(node, visited, rec_stack): the two sets are shared by all calls and
\* are returned as the call leaves them.
has_cycle(graph, node, visited, rec_stack) ==
  VisitNeighbors(graph, node, 1, visited \cup {node}, rec_stack \cup {node})

RECURSIVE DetectLoop(_, _, _, _)
\* for process in wait_for_graph, from the n-th key on: deadlocked_processes
\* as the loop leaves it (a list made from a set: its order is not fixed, it is
\* kept as the set).
DetectLoop(graph, n, visited, rec_stack) ==
  IF n > Len(graph)
    THEN {}
  ELSE IF graph[n].pid \in visited
    THEN DetectLoop(graph, n + 1, visited, rec_stack)
  ELSE LET r == has_cycle(graph, graph[n].pid, visited, rec_stack)
       IN IF r.cycle
            THEN r.rec_stack
            ELSE DetectLoop(graph, n + 1, r.visited, r.rec_stack)

WaitForResult(deadlocked_processes) ==
  [deadlock_detected |-> Cardinality(deadlocked_processes) > 0,
   deadlocked_processes |-> deadlocked_processes,
   message |-> IF deadlocked_processes # {}
                 THEN "Deadlock detected among processes"
                 ELSE "No deadlock detected"]

\* detect_deadlock_wait_for_graph that searches from the first key only.
detect_first_key(graph) ==
  WaitForResult(IF Len(graph) = 0
                  THEN {}
                  ELSE LET r == has_cycle(graph, graph[1].pid, {}, {})
                       IN IF r.cycle THEN r.rec_stack ELSE {})

RECURSIVE DetectLoopVisited(_, _, _, _)
\* The loop of detect_deadlock_wait_for_graph with list(visited) in place of
\* list(rec_stack).
DetectLoopVisited(graph, n, visited, rec_stack) ==
  IF n > Len(graph)
    THEN {}
  ELSE IF graph[n].pid \in visited
    THEN DetectLoopVisited(graph, n + 1, visited, rec_stack)
  ELSE LET r == has_cycle(graph, graph[n].pid, visited, rec_stack)
       IN IF r.cycle
            THEN r.visited
            ELSE DetectLoopVisited(graph, n + 1, r.visited, r.rec_stack)

\* detect_deadlock_wait_for_graph that reports the visited set.
detect_report_visited(graph) ==
  WaitForResult(DetectLoopVisited(graph, 1, {}, {}))

\* detect_deadlock_wait_for_graph that reports every key of the graph when it
\* finds a cycle.
detect_report_keys(graph) ==
  WaitForResult(IF DetectLoop(graph, 1, {}, {}) = {}
                  THEN {}
                  ELSE {graph[i].pid : i \in 1..Len(graph)})

\* DeadlockAlgorithms.detect_deadlock_wait_for_graph
detect_deadlock_wait_for_graph(graph) ==
  WaitForResult(DetectLoop(graph, 1, {}, {}))

\* The result of the scan: the pids of the processes it appended, in the order
\* it appended them.
ScanResult(hit) ==
  LET deadlocked == [n \in 1..Len(hit) |-> hit[n].pid]
  IN [deadlock_detected |-> Len(deadlocked) > 0,
      deadlocked_processes |-> deadlocked,
      message |-> IF Len(deadlocked) > 0
                    THEN "Potential deadlock: processes cannot proceed"
                    ELSE "No deadlock detected"]

\* detect_deadlock_resource_allocation with all() in place of any().
detect_every_dimension(procs, res) ==
  Ret(procs, res,
      ScanResult(SelectSeq(procs,
                 LAMBDA p : \A j \in ZipDom(p.need_resources, Available(res)) :
                              p.need_resources[j] > Available(res)[j])))

\* detect_deadlock_resource_allocation that scans the first process only.
detect_first_process(procs, res) ==
  Ret(procs, res,
      ScanResult(SelectSeq(SubSeq(procs, 1, IF Len(procs) = 0 THEN 0 ELSE 1),
                 LAMBDA p : \E j \in ZipDom(p.need_resources, Available(res)) :
                              p.need_resources[j] > Available(res)[j])))

\* DeadlockAlgorithms.detect_deadlock_resource_allocation
detect_deadlock_resource_allocation(procs, res) ==
  Ret(procs, res,
      ScanResult(SelectSeq(procs,
                 LAMBDA p : \E j \in ZipDom(p.need_resources, Available(res)) :
                              p.need_resources[j] > Available(res)[j])))

\* ------------------------------------------------------------------ release
Neg(v) == [j \in 1..Len(v) |-> 0 - v[j]]

\* deallocate_resources that releases the dimensions that are in range when
\* another dimension is out of range.
deallocate_partial(procs, res, process_id, release) ==
  LET k == Lookup(procs, process_id)
  IN IF k = 0
       THEN Ret(procs, res, [success |-> FALSE, message |-> "Process not found"])
     ELSE IF \E j \in ZipDom(release, procs[k].allocated_resources) :
               release[j] > procs[k].allocated_resources[j]
       THEN LET part == [j \in 1..Len(release) |->
                           IF release[j] > procs[k].allocated_resources[j]
                             THEN 0 ELSE release[j]]
            IN Ret([procs EXCEPT ![k] = GrantProc(@, Neg(part))],
                   GrantRes(res, Neg(part)),
                   [success |-> FALSE, message |-> "Cannot release more than allocated"])
     ELSE Ret([procs EXCEPT ![k] = GrantProc(@, Neg(release))],
              GrantRes(res, Neg(release)),
              [success |-> TRUE, message |-> "Resources released"])

\* deallocate_resources that does not give the units back to the resources.
deallocate_keep_available(procs, res, process_id, release) ==
  LET k == Lookup(procs, process_id)
  IN IF k = 0
       THEN Ret(procs, res, [success |-> FALSE, message |-> "Process not found"])
     ELSE IF \E j \in ZipDom(release, procs[k].allocated_resources) :
               release[j] > procs[k].allocated_resources[j]
       THEN Ret(procs, res,
                [success |-> FALSE, message |-> "Cannot release more than allocated"])
     ELSE Ret([procs EXCEPT ![k] = GrantProc(@, Neg(release))], res,
              [success |-> TRUE, message |-> "Resources released"])

\* ResourceAllocationAlgorithms.deallocate_resources
deallocate_resources(procs, res, process_id, release) ==
  LET k == Lookup(procs, process_id)
  IN IF k = 0
       THEN Ret(procs, res, [success |-> FALSE, message |-> "Process not found"])
     ELSE IF \E j \in ZipDom(release, procs[k].allocated_resources) :
               release[j] > procs[k].allocated_resources[j]
       THEN Ret(procs, res,
                [success |-> FALSE, message |-> "Cannot release more than allocated"])
     ELSE IF PastEnd(release, res)
       \* the release loop runs on the live objects
       THEN Raise([procs EXCEPT ![k] = GrantProc(@, Neg(release))],
                  GrantRes(res, Neg(release)), "IndexError")
     ELSE Ret([procs EXCEPT ![k] = GrantProc(@, Neg(release))],
              GrantRes(res, Neg(release)),
              [success |-> TRUE, message |-> "Resources released"])

\* ----------------------------------------------------------- batch policies
\* can_grant with any() in place of all().
CanGrantSome(res, request) ==
  \E j \in ZipDom(request, Available(res)) : request[j] <= Available(res)[j]

\* can_grant = all(req <= avail for req, avail in zip(request, available))
CanGrant(res, request) ==
  \A j \in ZipDom(request, Available(res)) : request[j] <= Available(res)[j]

\* sorted(processes, key=lambda p: p.arrival_time), as the indices of the
\* processes in sorted order; the sort is stable.
ArrivalOrder(procs) ==
  LET n == Len(procs)
      before(k, i) == \/ procs[k].arrival_time < procs[i].arrival_time
                      \/ procs[k].arrival_time = procs[i].arrival_time /\ k < i
      rank(i) == Cardinality({k \in 1..n : before(k, i)}) + 1
  IN [p \in 1..n |-> CHOOSE i \in 1..n : rank(i) = p]

\* next((p for p in sorted_processes if p.pid == pid), None); 0 is None.
LookupSorted(procs, order, pid) ==
  LET hits == {p \in 1..Len(order) : procs[order[p]].pid = pid}
  IN IF hits = {} THEN 0 ELSE order[Min(hits)]

RECURSIVE FcfsLoop(_, _, _, _, _)
\* The for-loop of fcfs_allocation, from the n-th request of the batch on.
FcfsLoop(procs, res, requests, n, results) ==
  IF n > Len(requests)
    THEN Ret(procs, res, results)
    ELSE LET request == requests[n].request
             k == LookupSorted(procs, ArrivalOrder(procs), requests[n].pid)
         IN IF k = 0
              THEN FcfsLoop(procs, res, requests, n + 1,
                            Append(results, Denied("Process not found")))
            ELSE IF CanGrant(res, request) /\ PastEnd(request, res)
              \* the grant loop runs on the live objects; the batch is abandoned
              THEN Raise([procs EXCEPT ![k] = GrantProc(@, request)],
                         GrantRes(res, request), "IndexError")
            ELSE IF CanGrant(res, request)
              THEN FcfsLoop([procs EXCEPT ![k] = GrantProc(@, request)],
                            GrantRes(res, request), requests, n + 1,
                            Append(results, Granted("Request granted")))
              ELSE FcfsLoop(procs, res, requests, n + 1,
                            Append(results, Denied("Request denied - insufficient resources")))

\* ResourceAllocationAlgorithms.fcfs_allocation: the batch is walked in batch
\* order; sorted_processes only serves the lookup by pid.
fcfs_allocation(procs, res, requests) == FcfsLoop(procs, res, requests, 1, <<>>)

\* Python's order on the pid strings of this model (lexicographic).
PidOrder == <<"P0", "P1", "P2", "P3", "P4", "PX">>
PidRank(pid) == CHOOSE r \in 1..Len(PidOrder) : PidOrder[r] = pid

\* a > b on lists of integers (lexicographic, a proper prefix is smaller).
ListGreater(a, b) ==
  \/ \E j \in ZipDom(a, b) : a[j] > b[j] /\ \A h \in 1..(j - 1) : a[h] = b[h]
  \/ Len(a) > Len(b) /\ \A h \in 1..Len(b) : a[h] = b[h]

\* a > b on the tuples (priority, pid, request) that priority_allocation sorts.
TupleGreater(a, b) ==
  \/ a.priority > b.priority
  \/ a.priority = b.priority /\ PidRank(a.pid) > PidRank(b.pid)
  \/ a.priority = b.priority /\ a.pid = b.pid /\ ListGreater(a.request, b.request)

\* priority_requests left in batch order.
SortNone(tuples) == tuples

\* list.sort(reverse=True): descending, equal elements keep their order.
SortReverse(tuples) ==
  LET n == Len(tuples)
      before(k, i) == \/ TupleGreater(tuples[k], tuples[i])
                      \/ tuples[k] = tuples[i] /\ k < i
      rank(i) == Cardinality({k \in 1..n : before(k, i)}) + 1
  IN [p \in 1..n |-> tuples[CHOOSE i \in 1..n : rank(i) = p]]

\* The first loop of priority_allocation: a request whose process is not found
\* is not copied into priority_requests.
PriorityRequests(procs, requests) ==
  LET found == SelectSeq(requests, LAMBDA r : Lookup(procs, r.pid) # 0)
  IN [n \in 1..Len(found) |->
        [priority |-> procs[Lookup(procs, found[n].pid)].priority,
         pid |-> found[n].pid,
         request |-> found[n].request]]

RECURSIVE PriorityLoop(_, _, _, _, _)
\* The second loop of priority_allocation, over the sorted priority_requests.
PriorityLoop(procs, res, priority_requests, n, results) ==
  IF n > Len(priority_requests)
    THEN Ret(procs, res, results)
    ELSE LET request == priority_requests[n].request
             k == Lookup(procs, priority_requests[n].pid)
         IN IF CanGrant(res, request) /\ PastEnd(request, res)
              THEN Raise([procs EXCEPT ![k] = GrantProc(@, request)],
                         GrantRes(res, request), "IndexError")
            ELSE IF CanGrant(res, request)
              THEN PriorityLoop([procs EXCEPT ![k] = GrantProc(@, request)],
                                GrantRes(res, request), priority_requests, n + 1,
                                Append(results, Granted("Request granted")))
              ELSE PriorityLoop(procs, res, priority_requests, n + 1,
                                Append(results, Denied("Request denied - insufficient resources")))

\* ResourceAllocationAlgorithms.priority_allocation
priority_allocation(procs, res, requests) ==
  PriorityLoop(procs, res, SortReverse(PriorityRequests(procs, requests)), 1, <<>>)

MinOf(a, b) == IF a <= b THEN a ELSE b
MaxOf(a, b) == IF a >= b THEN a ELSE b
MaxEntry(v) == CHOOSE x \in {v[j] : j \in 1..Len(v)} : \A j \in 1..Len(v) : v[j] <= x

\* The loop body of round_robin_allocation with alloc_amount = req: the
\* quantum is not applied.
round_robin_whole_request(procs, res, queue, results, time_quantum) ==
  LET pid == Head(queue).pid
      request == Head(queue).request
      rest == Tail(queue)
      k == Lookup(procs, pid)
      out(ps, rs, q, r) == [processes |-> ps, resources |-> rs, queue |-> q,
                            results |-> Append(results, r)]
  IN IF k = 0
       THEN out(procs, res, rest, Denied("Process not found"))
     ELSE IF CanGrant(res, request)
       THEN LET p == GrantProc(procs[k], request)
                ps == [procs EXCEPT ![k] = p]
                rs == GrantRes(res, request)
            IN IF \A j \in 1..Len(p.need_resources) : p.need_resources[j] = 0
                 THEN out(ps, rs, rest, Granted("Request completed"))
                 ELSE out(ps, rs,
                          Append(rest,
                                 [pid |-> pid,
                                  request |-> [j \in 1..Len(p.need_resources) |->
                                                 MaxOf(0, p.need_resources[j])]]),
                          Granted("Request partially granted, re-queued"))
       ELSE out(procs, res, Append(rest, [pid |-> pid, request |-> request]),
                Denied("Request denied, re-queued"))

\* The loop body of round_robin_allocation in which a granted request is not
\* put back on the queue.
round_robin_no_requeue(procs, res, queue, results, time_quantum) ==
  LET pid == Head(queue).pid
      request == Head(queue).request
      rest == Tail(queue)
      k == Lookup(procs, pid)
      out(ps, rs, q, r) == [processes |-> ps, resources |-> rs, queue |-> q,
                            results |-> Append(results, r)]
  IN IF k = 0
       THEN out(procs, res, rest, Denied("Process not found"))
     ELSE IF CanGrant(res, request)
       THEN LET allocated_time == MinOf(time_quantum, MaxEntry(request))
                amounts == [j \in 1..Len(request) |-> MinOf(request[j], allocated_time)]
            IN out([procs EXCEPT ![k] = GrantProc(procs[k], amounts)],
                   GrantRes(res, amounts), rest, Granted("Request completed"))
       ELSE out(procs, res, Append(rest, [pid |-> pid, request |-> request]),
                Denied("Request denied, re-queued"))

\* One iteration of the while-loop of round_robin_allocation, on its locals
\* (queue, results) and on the ledger.
round_robin_iteration(procs, res, queue, results, time_quantum) ==
  LET pid == Head(queue).pid
      request == Head(queue).request
      rest == Tail(queue)
      k == Lookup(procs, pid)
      out(ps, rs, q, r) == [processes |-> ps, resources |-> rs, queue |-> q,
                            results |-> Append(results, r)]
  IN IF k = 0
       THEN out(procs, res, rest, Denied("Process not found"))
     ELSE IF CanGrant(res, request)
       THEN LET allocated_time == MinOf(time_quantum, MaxEntry(request))
                amounts == [j \in 1..Len(request) |-> MinOf(request[j], allocated_time)]
                p == GrantProc(procs[k], amounts)
                ps == [procs EXCEPT ![k] = p]
                rs == GrantRes(res, amounts)
            IN IF \A j \in 1..Len(p.need_resources) : p.need_resources[j] = 0
                 THEN out(ps, rs, rest, Granted("Request completed"))
                 ELSE out(ps, rs,
                          Append(rest,
                                 [pid |-> pid,
                                  request |-> [j \in 1..Len(p.need_resources) |->
                                                 MaxOf(0, p.need_resources[j])]]),
                          Granted("Request partially granted, re-queued"))
       ELSE out(procs, res, Append(rest, [pid |-> pid, request |-> request]),
                Denied("Request denied, re-queued"))

\* alloc of fair_share_allocation without the remainder.
FairAllocEven(procs, res, i, j) ==
  LET num_processes == Len(procs)
      fair_share == res[i].total_instances \div num_processes
  IN MinOf(fair_share, procs[j].max_resources[i])

\* alloc of fair_share_allocation for resource i (1-based) and the j-th process
\* (1-based: the source's `j < remainder` is `j <= remainder` here).
FairAlloc(procs, res, i, j) ==
  LET num_processes == Len(procs)
      fair_share == res[i].total_instances \div num_processes
      remainder == res[i].total_instances % num_processes
  IN MinOf(fair_share + (IF j <= remainder THEN 1 ELSE 0), procs[j].max_resources[i])

RECURSIVE SumTo(_, _)
\* f[1] + ... + f[n]
SumTo(f, n) == IF n = 0 THEN 0 ELSE f[n] + SumTo(f, n - 1)

\* ResourceAllocationAlgorithms.fair_share_allocation: allocated and need are
\* overwritten, available_instances is decremented from its current value.
fair_share_allocation(procs, res) ==
  IF Len(procs) = 0
    THEN Ret(procs, res, [allocations |-> <<>>, message |-> "No processes"])
    ELSE LET R == 1..Len(res)
             ps == [j \in 1..Len(procs) |->
                      [procs[j] EXCEPT
                         !.allocated_resources =
                           [i \in 1..Len(@) |->
                              IF i \in R THEN FairAlloc(procs, res, i, j) ELSE @[i]],
                         !.need_resources =
                           [i \in 1..Len(@) |->
                              IF i \in R
                                THEN procs[j].max_resources[i] - FairAlloc(procs, res, i, j)
                                ELSE @[i]]]]
             rs == [i \in R |->
                      [res[i] EXCEPT
                         !.available_instances =
                           @ - SumTo([j \in 1..Len(procs) |-> FairAlloc(procs, res, i, j)],
                                     Len(procs))]]
         IN Ret(ps, rs,
                [allocations |->
                   [j \in 1..Len(procs) |->
                      [pid |-> procs[j].pid,
                       allocation |-> [i \in R |-> FairAlloc(procs, res, i, j)]]],
                 message |-> "Fair share allocation completed"])

\* ------------------------------------------------------------ construction
\* app.py builds the ledger of one request from its JSON records: every process
\* record carries max_resources and allocated_resources.
RouteProcesses(pids, maxes, allocs, priorities, arrivals) ==
  [i \in 1..Len(pids) |->
     NewProcess(pids[i], maxes[i], Some(allocs[i]), priorities[i], arrivals[i])]

\* The visualizers' add_process: no allocation is given.
GuiProcesses(pids, maxes, priorities) ==
  [i \in 1..Len(pids) |-> NewProcess(pids[i], maxes[i], None, priorities[i], 0)]

\* ---------------------------------------------------------------- starvation
\* check_starvation with >= in place of >.
check_starvation_from(procs, time_threshold) ==
  LET starved == SelectSeq(procs,
                   LAMBDA p : /\ p.wait_time >= time_threshold
                              /\ \E j \in 1..Len(p.need_resources) : p.need_resources[j] > 0)
  IN [n \in 1..Len(starved) |-> starved[n].pid]

\* ResourceAllocationAlgorithms.check_starvation
check_starvation(procs, time_threshold) ==
  LET starved == SelectSeq(procs,
                   LAMBDA p : /\ p.wait_time > time_threshold
                              /\ \E j \in 1..Len(p.need_resources) : p.need_resources[j] > 0)
  IN [n \in 1..Len(starved) |-> starved[n].pid]

\* ----------------------------------------------------------- synchronization
\* SynchronizationProcess.__init__: state and waiting_for.
NewSyncProcess == [state |-> "ready", waiting_for |-> None]

\* process.state = ProcessState.WAITING; process.waiting_for = name
Block(procs, process, name) ==
  [procs EXCEPT ![process] = [state |-> "waiting", waiting_for |-> Some(name)]]

\* process.state = ProcessState.READY; process.waiting_for = None, for the
\* process a signal or an unlock took from its waiting queue, if any.
Unblock(procs, unblocked) ==
  IF unblocked = None
    THEN procs
    ELSE [procs EXCEPT ![unblocked[1]] = [state |-> "ready", waiting_for |-> None]]

\* Semaphore.__init__
NewSemaphore(value, name) == [value |-> value, name |-> name, waiting_queue |-> <<>>]

\* Semaphore.wait: the semaphore after the call and the value returned.
SemaphoreWait(sem, process) ==
  IF sem.value > 0
    THEN [sem |-> [sem EXCEPT !.value = @ - 1], ok |-> TRUE]
    ELSE [sem |-> [sem EXCEPT !.waiting_queue = Append(@, process)], ok |-> FALSE]

\* Semaphore.signal: the semaphore after the call and the process unblocked.
SemaphoreSignal(sem) ==
  IF sem.waiting_queue # <<>>
    THEN [sem |-> [sem EXCEPT !.value = @ + 1, !.waiting_queue = Tail(@)],
          unblocked |-> Some(Head(sem.waiting_queue))]
    ELSE [sem |-> [sem EXCEPT !.value = @ + 1], unblocked |-> None]

\* Mutex.__init__
NewMutex(name) == [name |-> name, locked |-> FALSE, owner |-> None, waiting_queue |-> <<>>]

\* Mutex.lock
MutexLock(mutex, process) ==
  IF ~mutex.locked
    THEN [mutex |-> [mutex EXCEPT !.locked = TRUE, !.owner = Some(process)], ok |-> TRUE]
    ELSE [mutex |-> [mutex EXCEPT !.waiting_queue = Append(@, process)], ok |-> FALSE]

\* Mutex.unlock: whoever calls it, a locked mutex is released.
MutexUnlock(mutex) ==
  IF mutex.locked
    THEN IF mutex.waiting_queue # <<>>
           THEN [mutex |-> [mutex EXCEPT !.locked = FALSE, !.owner = None,
                                         !.waiting_queue = Tail(@)],
                 unblocked |-> Some(Head(mutex.waiting_queue))]
           ELSE [mutex |-> [mutex EXCEPT !.locked = FALSE, !.owner = None],
                 unblocked |-> None]
    ELSE [mutex |-> mutex, unblocked |-> None]

\* ProducerConsumer.__init__, with the processes that will call it.
NewProducerConsumer(buffer_size, callers) ==
  [buffer_size |-> buffer_size,
   buffer |-> <<>>,
   mutex |-> NewMutex("buffer_mutex"),
   empty |-> NewSemaphore(buffer_size, "empty_slots"),
   full |-> NewSemaphore(0, "full_slots"),
   producer_count |-> 0,
   consumer_count |-> 0,
   procs |-> [c \in callers |-> NewSyncProcess]]

\* What produce and consume return: success and a copy of the buffer.
BufferResult(success, pc) == [success |-> success, buffer |-> pc.buffer]

\* ProducerConsumer.produce: the object after the call and the result.
produce(pc, producer, item) ==
  LET w == SemaphoreWait(pc.empty, producer)
      l == MutexLock(pc.mutex, producer)
  IN IF ~w.ok
       THEN LET after == [pc EXCEPT !.empty = w.sem,
                                    !.procs = Block(@, producer, pc.empty.name)]
            IN [object |-> after, result |-> BufferResult(FALSE, after)]
     ELSE IF ~l.ok
       THEN LET after == [pc EXCEPT !.empty = w.sem, !.mutex = l.mutex,
                                    !.procs = Block(@, producer, pc.mutex.name)]
            IN [object |-> after, result |-> BufferResult(FALSE, after)]
     ELSE LET u == MutexUnlock(l.mutex)
              g == SemaphoreSignal(pc.full)
              after == [pc EXCEPT !.empty = w.sem,
                                  !.buffer = Append(@, item),
                                  !.producer_count = @ + 1,
                                  !.mutex = u.mutex,
                                  !.full = g.sem,
                                  !.procs = Unblock(Unblock(@, u.unblocked), g.unblocked)]
          IN [object |-> after, result |-> BufferResult(TRUE, after)]

\* consume with buffer.pop() in place of buffer.pop(0).
consume_newest(pc, consumer) ==
  LET w == SemaphoreWait(pc.full, consumer)
      g == SemaphoreSignal(pc.empty)
  IN IF ~w.ok
       THEN LET after == [pc EXCEPT !.full = w.sem,
                                    !.procs = Block(@, consumer, pc.full.name)]
            IN [object |-> after, result |-> BufferResult(FALSE, after)]
       ELSE LET after == [pc EXCEPT !.full = w.sem,
                                    !.buffer = SubSeq(@, 1, Len(@) - 1),
                                    !.consumer_count = @ + 1,
                                    !.empty = g.sem,
                                    !.procs = Unblock(@, g.unblocked)]
            IN [object |-> after, result |-> BufferResult(TRUE, after)]

\* ProducerConsumer.consume
consume(pc, consumer) ==
  LET w == SemaphoreWait(pc.full, consumer)
      l == MutexLock(pc.mutex, consumer)
  IN IF ~w.ok
       THEN LET after == [pc EXCEPT !.full = w.sem,
                                    !.procs = Block(@, consumer, pc.full.name)]
            IN [object |-> after, result |-> BufferResult(FALSE, after)]
     ELSE IF ~l.ok
       THEN LET after == [pc EXCEPT !.full = w.sem, !.mutex = l.mutex,
                                    !.procs = Block(@, consumer, pc.mutex.name)]
            IN [object |-> after, result |-> BufferResult(FALSE, after)]
     ELSE LET u == MutexUnlock(l.mutex)
              g == SemaphoreSignal(pc.empty)
              after == [pc EXCEPT !.full = w.sem,
                                  !.buffer = Tail(@),
                                  !.consumer_count = @ + 1,
                                  !.mutex = u.mutex,
                                  !.empty = g.sem,
                                  !.procs = Unblock(Unblock(@, u.unblocked), g.unblocked)]
          IN [object |-> after, result |-> BufferResult(TRUE, after)]

\* DiningPhilosophers.__init__: philosophers and chopsticks are numbered from 0.
NewDiningPhilosophers(num_philosophers) ==
  [num_philosophers |-> num_philosophers,
   procs |-> [i \in 0..(num_philosophers - 1) |-> NewSyncProcess],
   chopsticks |-> [i \in 0..(num_philosophers - 1) |-> NewMutex("Chopstick")],
   states |-> [i \in 0..(num_philosophers - 1) |-> "thinking"]]

\* What pickup_chopsticks and putdown_chopsticks return: success and a copy
\* of states.
StatesResult(success, dp) == [success |-> success, states |-> dp.states]

\* pickup_chopsticks that keeps the left chopstick when the right one is taken.
pickup_keep_left(dp, philosopher_id) ==
  LET left == philosopher_id
      right == (philosopher_id + 1) % dp.num_philosophers
      hungry == [dp EXCEPT !.states[philosopher_id] = "hungry"]
      l == MutexLock(dp.chopsticks[left], philosopher_id)
      with_left == [dp.chopsticks EXCEPT ![left] = l.mutex]
      r == MutexLock(with_left[right], philosopher_id)
      with_right == [with_left EXCEPT ![right] = r.mutex]
  IN IF ~l.ok
       THEN LET after == [hungry EXCEPT !.chopsticks = with_left,
                                        !.procs = Block(@, philosopher_id, "Chopstick")]
            IN [object |-> after, result |-> StatesResult(FALSE, after)]
     ELSE IF ~r.ok
       THEN LET after == [hungry EXCEPT !.chopsticks = with_right,
                                        !.procs = Block(@, philosopher_id, "Chopstick")]
            IN [object |-> after, result |-> StatesResult(FALSE, after)]
     ELSE LET after == [hungry EXCEPT !.chopsticks = with_right,
                                      !.states[philosopher_id] = "eating"]
          IN [object |-> after, result |-> StatesResult(TRUE, after)]

\* DiningPhilosophers.pickup_chopsticks
pickup_chopsticks(dp, philosopher_id) ==
  LET left == philosopher_id
      right == (philosopher_id + 1) % dp.num_philosophers
      hungry == [dp EXCEPT !.states[philosopher_id] = "hungry"]
      l == MutexLock(dp.chopsticks[left], philosopher_id)
      with_left == [dp.chopsticks EXCEPT ![left] = l.mutex]
      r == MutexLock(with_left[right], philosopher_id)
      with_right == [with_left EXCEPT ![right] = r.mutex]
      \* Put down left chopstick
      u == MutexUnlock(with_right[left])
  IN IF ~l.ok
       THEN LET after == [hungry EXCEPT !.chopsticks = with_left,
                                        !.procs = Block(@, philosopher_id, "Chopstick")]
            IN [object |-> after, result |-> StatesResult(FALSE, after)]
     ELSE IF ~r.ok
       THEN LET after == [hungry EXCEPT
                            !.chopsticks = [with_right EXCEPT ![left] = u.mutex],
                            !.procs = Unblock(Block(@, philosopher_id, "Chopstick"),
                                              u.unblocked)]
            IN [object |-> after, result |-> StatesResult(FALSE, after)]
     ELSE LET after == [hungry EXCEPT !.chopsticks = with_right,
                                      !.states[philosopher_id] = "eating"]
          IN [object |-> after, result |-> StatesResult(TRUE, after)]

\* DiningPhilosophers.putdown_chopsticks
putdown_chopsticks(dp, philosopher_id) ==
  LET left == philosopher_id
      right == (philosopher_id + 1) % dp.num_philosophers
      unblocked_left == MutexUnlock(dp.chopsticks[left])
      without_left == [dp.chopsticks EXCEPT ![left] = unblocked_left.mutex]
      unblocked_right == MutexUnlock(without_left[right])
      after == [dp EXCEPT
                  !.chopsticks = [without_left EXCEPT ![right] = unblocked_right.mutex],
                  !.states[philosopher_id] = "thinking",
                  !.procs = Unblock(Unblock(@, unblocked_left.unblocked),
                                    unblocked_right.unblocked)]
  IN [object |-> after, result |-> StatesResult(TRUE, after)]

NewResources(rids, totals) == [j \in 1..Len(rids) |-> NewResource(rids[j], totals[j])]

Ledger == [processes |-> processes, resources |-> resources]

NoCall == [op |-> "construct", args |-> <<>>, result |-> <<>>, raised |-> None]
RRIdle == [running |-> FALSE, queue |-> <<>>, results |-> <<>>, time_quantum |-> 0]

\* A ledger just constructed, held by s.
InitLedger(s, procs, res) ==
  /\ session = s
  /\ processes = procs
  /\ resources = res
  /\ built = [processes |-> procs, resources |-> res]
  /\ pre = [processes |-> procs, resources |-> res]
  /\ last = NoCall
  /\ rr = RRIdle
  /\ wait_for_graph = <<>>
  /\ threads = <<>>
  /\ sync = <<>>
  /\ sync_pre = <<>>

\* ------------------------------------------------------------------- calls
\* A route serves one call on its ledger and drops it; a visualizer keeps its
\* ledger for the next call. Calls do not overlap.
CanCall == ~rr.running /\ (session # "route" \/ last.op = "construct")

\* The batch policies are run on a ledger just built: by
\* /resource_allocation/allocate, or by a caller of the library.
CanRunBatch == ~rr.running /\ session \in {"route", "caller"} /\ last.op = "construct"

\* make_request and release_resources belong to the visualizers.
CanClick == ~rr.running /\ session = "gui"

\* release_resources of the visualizer; a caller of the library releases once
\* from the ledger it built, before or after its allocation call.
CanRelease ==
  /\ ~rr.running
  /\ \/ session = "gui"
     \/ session = "caller" /\ last.op # "deallocate_resources"

\* A call that ends: the ledger the call leaves, and the call's record.
Apply(op, args, out) ==
  /\ processes' = out.processes
  /\ resources' = out.resources
  /\ pre' = Ledger
  /\ last' = [op |-> op, args |-> args, result |-> out.result, raised |-> out.raised]
  /\ UNCHANGED <<session, built, rr, wait_for_graph, threads, sync, sync_pre>>

\* /deadlock/bankers and /resource_allocation/allocate with policy 'bankers',
\* and on_play of the two visualizers.
BankersCall ==
  /\ CanCall
  /\ Apply("bankers_algorithm", <<>>, bankers_algorithm(processes, resources))

\* /deadlock/request, and make_request of the deadlock visualizer; the process
\* id and the request are drawn from the sets given.
SimulateRequestOf(pids, requests) ==
  /\ CanCall
  /\ \E process_id \in pids, request \in requests :
       Apply("simulate_request",
             [process_id |-> process_id, request |-> request],
             simulate_request(processes, resources, process_id, request))

SimulateRequest ==
  SimulateRequestOf(CallPids(processes), Vectors(MaxReq))

\* make_request of the resource-allocation visualizer under the Banker's policy.
SimulateRequestBankersOf(pids, requests) ==
  /\ CanClick
  /\ \E process_id \in pids, request \in requests :
       Apply("simulate_request_bankers",
             [process_id |-> process_id, request |-> request],
             simulate_request_bankers(processes, resources, process_id, request))

SimulateRequestBankers ==
  SimulateRequestBankersOf(CallPids(processes), Vectors(MaxReq))

\* release_resources of the resource-allocation visualizer.
DeallocateOf(pids, releases) ==
  /\ CanRelease
  /\ \E process_id \in pids, release \in releases :
       Apply("deallocate_resources",
             [process_id |-> process_id, release |-> release],
             deallocate_resources(processes, resources, process_id, release))

Deallocate == DeallocateOf(CallPids(processes), Vectors(MaxReq))

\* The batches of at most n requests.
RequestRecords(procs) == [pid : CallPids(procs), request : Vectors(MaxReq)]
Batches(procs, n) == UNION {[1..len -> RequestRecords(procs)] : len \in 0..n}

\* /resource_allocation/allocate with policy 'fcfs'; the batch is drawn from
\* the set given.
FcfsOf(batches) ==
  /\ CanRunBatch
  /\ \E requests \in batches :
       Apply("fcfs_allocation", [requests |-> requests],
             fcfs_allocation(processes, resources, requests))

Fcfs == FcfsOf(Batches(processes, MaxBatch))

\* /resource_allocation/allocate with policy 'priority'.
PriorityOf(batches) ==
  /\ CanRunBatch
  /\ \E requests \in batches :
       Apply("priority_allocation", [requests |-> requests],
             priority_allocation(processes, resources, requests))

Priority == PriorityOf(Batches(processes, MaxBatch))

\* /resource_allocation/allocate with policy 'fair_share', and on_play of the
\* resource-allocation visualizer. available_instances falls without a floor
\* under repeated calls; calls are followed while it is above -MaxTotal.
FairShare ==
  /\ CanCall
  /\ \A j \in 1..Len(resources) : resources[j].available_instances >= 0 - MaxTotal
  /\ Apply("fair_share_allocation", <<>>, fair_share_allocation(processes, resources))

\* /resource_allocation/allocate with policy 'round_robin': the call starts
\* with queue = list(requests) and results = [].
RoundRobinCallOf(batches) ==
  /\ CanRunBatch
  /\ \E requests \in batches, time_quantum \in 0..MaxQuantum :
       /\ rr' = [running |-> TRUE, queue |-> requests, results |-> <<>>,
                 time_quantum |-> time_quantum]
       /\ last' = [op |-> "round_robin_allocation",
                   args |-> [requests |-> requests, time_quantum |-> time_quantum],
                   result |-> None, raised |-> None]
  /\ pre' = Ledger
  /\ UNCHANGED <<processes, resources, session, built, wait_for_graph, threads, sync, sync_pre>>

RoundRobinCall == RoundRobinCallOf(Batches(processes, MaxBatch))

\* while queue: one iteration of the loop body.
RoundRobinStep ==
  /\ rr.running
  /\ rr.queue # <<>>
  /\ Len(rr.results) < MaxIter
  /\ LET out == round_robin_iteration(processes, resources, rr.queue, rr.results,
                                      rr.time_quantum)
     IN /\ processes' = out.processes
        /\ resources' = out.resources
        /\ rr' = [rr EXCEPT !.queue = out.queue, !.results = out.results]
  /\ UNCHANGED <<session, built, pre, last, wait_for_graph, threads, sync, sync_pre>>

\* The queue is empty: return results.
RoundRobinReturn ==
  /\ rr.running
  /\ rr.queue = <<>>
  /\ last' = [last EXCEPT !.result = Some(rr.results)]
  /\ rr' = RRIdle
  /\ UNCHANGED <<processes, resources, session, built, pre, wait_for_graph, threads, sync, sync_pre>>

\* ----------------------------------------------------------- specifications
\* The ledger under every operation: the ledger of a /resource_allocation/allocate
\* request, which serves one policy run, and the ledger that the
\* resource-allocation visualizer keeps between its calls.
Init ==
  \/ \E maxes \in Matrices(PIDS, MaxClaim), allocs \in Matrices(PIDS, MaxClaim),
        priorities \in Ranks(PIDS), totals \in Vectors(MaxTotal) :
       InitLedger("route",
                  RouteProcesses(PIDS, maxes, allocs, priorities, Zeros(PIDS)),
                  NewResources(RIDS, totals))
  \/ \E maxes \in Matrices(PIDS, MaxClaim), totals \in Vectors(MaxTotal) :
       InitLedger("gui", GuiProcesses(PIDS, maxes, Zeros(PIDS)),
                  NewResources(RIDS, totals))

Next ==
  \/ BankersCall
  \/ SimulateRequestBankers
  \/ Deallocate
  \/ Fcfs
  \/ Priority
  \/ FairShare
  \/ RoundRobinCall
  \/ RoundRobinStep
  \/ RoundRobinReturn

Spec == Init /\ [][Next]_vars

\* The single-request admission path: the ledger of a /deadlock/request
\* request, and the ledger a visualizer keeps between its make_request calls.
InitRequest ==
  \/ \E maxes \in Matrices(PIDS, MaxClaim), allocs \in Matrices(PIDS, MaxClaim),
        totals \in Vectors(MaxTotal) :
       InitLedger("route",
                  RouteProcesses(PIDS, maxes, allocs, Zeros(PIDS), Zeros(PIDS)),
                  NewResources(RIDS, totals))
  \/ \E maxes \in Matrices(PIDS, MaxClaim), totals \in Vectors(MaxTotal) :
       InitLedger("gui", GuiProcesses(PIDS, maxes, Zeros(PIDS)),
                  NewResources(RIDS, totals))

NextRequest ==
  \/ SimulateRequest
  \/ SimulateRequestBankers

SpecRequest == InitRequest /\ [][NextRequest]_vars

\* Scenario A of the specification: the max demands, the allocations and the
\* totals of the five-process, three-resource example.
ScenarioMax ==
  << <<7, 5, 3>>, <<3, 2, 2>>, <<9, 0, 2>>, <<2, 2, 2>>, <<4, 3, 3>> >>
ScenarioAllocated ==
  << <<0, 1, 0>>, <<2, 0, 0>>, <<3, 0, 2>>, <<2, 1, 1>>, <<0, 0, 2>> >>
ScenarioTotals == <<10, 5, 7>>
\* Scenario B: the request of process 1.
ScenarioRequest == <<1, 0, 2>>

\* The deadlock visualizer with the resources and processes of Scenario A added.
InitScenario ==
  InitLedger("gui", GuiProcesses(PIDS_A, ScenarioMax, Zeros(PIDS_A)),
             NewResources(RIDS_A, ScenarioTotals))

\* make_request of the deadlock visualizer on the Scenario A ledger: a row of
\* the allocation table is entered, once, as a request of its process.
LoadRow ==
  /\ session = "gui"
  /\ \E i \in 1..Len(PIDS_A) :
       /\ \A j \in 1..Len(RIDS_A) : processes[i].allocated_resources[j] = 0
       /\ SimulateRequestOf({PIDS_A[i]}, {ScenarioAllocated[i]})

\* make_request of the deadlock visualizer: the request of Scenario B.
RequestB ==
  /\ session = "gui"
  /\ SimulateRequestOf({PIDS_A[2]}, {ScenarioRequest})

\* Banker's algorithm as a function of the ledger: ledgers of two processes with
\* any allocation, ledgers of three processes with allocations within the max
\* demand, the Scenario A records as /deadlock/bankers builds them, and the
\* Scenario A ledger as the deadlock visualizer reaches it.
InitBankers ==
  \/ \E maxes \in Matrices(PIDS, MaxClaim), allocs \in Matrices(PIDS, MaxClaim),
        totals \in Vectors(MaxTotal) :
       InitLedger("caller",
                  RouteProcesses(PIDS, maxes, allocs, Zeros(PIDS), Zeros(PIDS)),
                  NewResources(RIDS, totals))
  \/ \E maxes \in Matrices(PIDS3, MaxClaim), totals \in Vectors(MaxTotal) :
       \E allocs \in {a \in Matrices(PIDS3, MaxClaim) :
                        \A i \in 1..Len(PIDS3) : \A j \in Dims : a[i][j] <= maxes[i][j]} :
         InitLedger("caller",
                    RouteProcesses(PIDS3, maxes, allocs, Zeros(PIDS3), Zeros(PIDS3)),
                    NewResources(RIDS, totals))
  \/ InitLedger("caller",
                RouteProcesses(PIDS_A, ScenarioMax, ScenarioAllocated,
                               Zeros(PIDS_A), Zeros(PIDS_A)),
                NewResources(RIDS_A, ScenarioTotals))
  \/ InitScenario

NextBankers ==
  \/ BankersCall
  \/ LoadRow
  \/ RequestB

SpecBankers == InitBankers /\ [][NextBankers]_vars

\* Scenarios A and B in the deadlock visualizer.
NextScenario ==
  \/ LoadRow
  \/ RequestB
  \/ BankersCall

SpecScenario == InitScenario /\ [][NextScenario]_vars

\* The processes a wait-for graph may name.
WaitPids == {"P0", "P1", "P2"}
\* The lists of waited-for processes: a process is listed once.
WaitLists ==
  UNION {{w \in [1..len -> WaitPids] : \A a, b \in 1..len : a # b => w[a] # w[b]} :
           len \in 0..MaxWaits}
\* The orders in which the keys of a dict over WaitPids may have been inserted.
KeyOrders ==
  UNION {{ks \in [1..len -> WaitPids] : \A a, b \in 1..len : a # b => ks[a] # ks[b]} :
           len \in 0..Cardinality(WaitPids)}
\* The wait-for graphs.
WaitForGraphs ==
  UNION {{[i \in 1..Len(ks) |-> [pid |-> ks[i], waits_for |-> w[i]]] :
            w \in [1..Len(ks) -> WaitLists]} : ks \in KeyOrders}

\* /deadlock/detect: the request carries a wait-for graph, or the records of a
\* ledger.
InitDetect ==
  \/ /\ session = "route"
     /\ processes = <<>>
     /\ resources = <<>>
     /\ built = [processes |-> <<>>, resources |-> <<>>]
     /\ pre = [processes |-> <<>>, resources |-> <<>>]
     /\ last = NoCall
     /\ rr = RRIdle
     /\ wait_for_graph \in WaitForGraphs
     /\ threads = <<>>
     /\ sync = <<>>
     /\ sync_pre = <<>>
  \/ \E maxes \in Matrices(PIDS, MaxClaim), allocs \in Matrices(PIDS, MaxClaim),
        totals \in Vectors(MaxTotal) :
       InitLedger("route",
                  RouteProcesses(PIDS, maxes, allocs, Zeros(PIDS), Zeros(PIDS)),
                  NewResources(RIDS, totals))

\* /deadlock/detect with method 'wait_for_graph'.
DetectWaitFor ==
  /\ CanCall
  /\ Apply("detect_deadlock_wait_for_graph", [wait_for_graph |-> wait_for_graph],
           Ret(processes, resources, detect_deadlock_wait_for_graph(wait_for_graph)))

\* /deadlock/detect with method 'resource_allocation', and on_play of the
\* deadlock visualizer in detection mode.
DetectResourceAllocation ==
  /\ CanCall
  /\ Apply("detect_deadlock_resource_allocation", <<>>,
           detect_deadlock_resource_allocation(processes, resources))

NextDetect ==
  \/ DetectWaitFor
  \/ DetectResourceAllocation

SpecDetect == InitDetect /\ [][NextDetect]_vars

\* Every process claims MaxClaim of every resource.
FullClaims(pids) == [i \in 1..Len(pids) |-> [j \in Dims |-> MaxClaim]]

\* Allocation and release: the ledger the resource-allocation visualizer keeps
\* between make_request and release_resources, and the ledger a caller of the
\* library builds from records, runs one fcfs_allocation request on, and
\* releases from. fcfs_allocation and deallocate_resources do not read
\* max_resources: the caller's records carry one max demand.
InitRelease ==
  \/ \E maxes \in Matrices(PIDS, MaxClaim), totals \in Vectors(MaxTotal) :
       InitLedger("gui", GuiProcesses(PIDS, maxes, Zeros(PIDS)),
                  NewResources(RIDS, totals))
  \/ \E allocs \in Matrices(PIDS, MaxClaim), totals \in Vectors(MaxTotal) :
       InitLedger("caller",
                  RouteProcesses(PIDS, FullClaims(PIDS), allocs, Zeros(PIDS), Zeros(PIDS)),
                  NewResources(RIDS, totals))

\* fcfs_allocation with a batch of one request.
FcfsOne == FcfsOf({<<r>> : r \in RequestRecords(processes)})

NextRelease ==
  \/ SimulateRequestBankers
  \/ FcfsOne
  \/ Deallocate

SpecRelease == InitRelease /\ [][NextRelease]_vars

\* No process holds a unit of any resource.
NoUnits(pids) == [i \in 1..Len(pids) |-> [j \in Dims |-> 0]]

\* The batches of two requests.
Pairs(procs) == [1..2 -> RequestRecords(procs)]

\* /resource_allocation/allocate with policy 'fcfs' or 'priority': the records
\* carry priorities and arrival times, no allocation and one max demand (the
\* two policies do not read max_resources); the batch has up to two requests.
InitBatch ==
  \E priorities \in Ranks(PIDS), arrivals \in Ranks(PIDS), totals \in Vectors(MaxTotal) :
    InitLedger("route",
               RouteProcesses(PIDS, FullClaims(PIDS), NoUnits(PIDS), priorities, arrivals),
               NewResources(RIDS, totals))

FcfsBatch == FcfsOf(Batches(processes, MaxBatch) \cup Pairs(processes))

PriorityBatch == PriorityOf(Batches(processes, MaxBatch) \cup Pairs(processes))

NextBatch ==
  \/ FcfsBatch
  \/ PriorityBatch

SpecBatch == InitBatch /\ [][NextBatch]_vars

\* Scenario D: three processes and one resource of ten instances; each process
\* claims three, four or five of them.
ScenarioDPids == <<"P0", "P1", "P2">>
ScenarioDTotals == <<10>>
ScenarioDClaims == {<<3>>, <<4>>, <<5>>}

\* on_play of the resource-allocation visualizer under the fair-share policy,
\* and fair_share_allocation called on a ledger built from records: the
\* ledgers of two processes with any allocation, and those of Scenario D.
InitFairShare ==
  \/ \E maxes \in Matrices(PIDS, MaxClaim), allocs \in Matrices(PIDS, MaxClaim),
        totals \in Vectors(MaxTotal) :
       InitLedger("caller",
                  RouteProcesses(PIDS, maxes, allocs, Zeros(PIDS), Zeros(PIDS)),
                  NewResources(RIDS, totals))
  \/ \E maxes \in [1..Len(ScenarioDPids) -> ScenarioDClaims] :
       InitLedger("gui", GuiProcesses(ScenarioDPids, maxes, Zeros(ScenarioDPids)),
                  NewResources(<<"R1">>, ScenarioDTotals))

NextFairShare == FairShare

SpecFairShare == InitFairShare /\ [][NextFairShare]_vars

\* ------------------------------------------------------------ round robin
\* /resource_allocation/allocate with policy 'round_robin' on records that
\* hold nothing yet and declare the same max demand; the batch has one or two
\* requests.
SameClaims(pids) == {[i \in 1..Len(pids) |-> m] : m \in Vectors(MaxClaim)}

InitRoundRobin ==
  \E maxes \in SameClaims(PIDS), totals \in Vectors(MaxTotal) :
    InitLedger("route",
               RouteProcesses(PIDS, maxes, NoUnits(PIDS), Zeros(PIDS), Zeros(PIDS)),
               NewResources(RIDS, totals))

RoundRobinBatch ==
  RoundRobinCallOf([1..1 -> RequestRecords(processes)] \cup Pairs(processes))

NextRoundRobin ==
  \/ RoundRobinBatch
  \/ RoundRobinStep
  \/ RoundRobinReturn

SpecRoundRobin == InitRoundRobin /\ [][NextRoundRobin]_vars

\* ------------------------------------------------- the admission path
\* A visualizer's ledger (nothing allocated when it is built) that
\* bankers_algorithm reports safe, then requests and releases in any order.
InitSafety ==
  \E maxes \in Matrices(PIDS, MaxClaim), totals \in Vectors(MaxTotal) :
    /\ InitLedger("gui", GuiProcesses(PIDS, maxes, Zeros(PIDS)), NewResources(RIDS, totals))
    /\ bankers_algorithm(processes, resources).result.safe

\* The ids of the processes of the ledger (a call that names another id is
\* denied before it reads anything else).
KnownPids(procs) == {procs[k].pid : k \in 1..Len(procs)}

SimulateRequestSafety == SimulateRequestOf(KnownPids(processes), Vectors(MaxReq))
SimulateRequestBankersSafety == SimulateRequestBankersOf(KnownPids(processes), Vectors(MaxReq))
DeallocateSafety == DeallocateOf(KnownPids(processes), Vectors(MaxReq))

NextSafety ==
  \/ SimulateRequestSafety
  \/ SimulateRequestBankersSafety
  \/ DeallocateSafety

SpecSafety == InitSafety /\ [][NextSafety]_vars

\* --------------------------------------------------------- the bookkeeping
\* A caller of the library builds records that declare the same max demand
\* and hold nothing, and then calls the allocation and release functions in
\* any order; a batch carries one request.
InitAccounting ==
  \E maxes \in SameClaims(PIDS), totals \in Vectors(MaxTotal) :
    InitLedger("caller",
               RouteProcesses(PIDS, maxes, NoUnits(PIDS), Zeros(PIDS), Zeros(PIDS)),
               NewResources(RIDS, totals))

PriorityOne == PriorityOf({<<r>> : r \in RequestRecords(processes)})
RoundRobinOne == RoundRobinCallOf({<<r>> : r \in RequestRecords(processes)})

NextAccounting ==
  \/ SimulateRequestSafety
  \/ DeallocateSafety
  \/ FairShare
  \/ FcfsOne
  \/ PriorityOne
  \/ RoundRobinOne
  \/ RoundRobinStep
  \/ RoundRobinReturn

SpecAccounting == InitAccounting /\ [][NextAccounting]_vars

\* ------------------------------------------------------- the starvation check
\* check_starvation on the records of a caller: wait_time is a plain
\* attribute that the caller sets; the threshold is any integer from -1 on.
InitStarvation ==
  \E maxes \in Matrices(PIDS, MaxClaim), waits \in [1..Len(PIDS) -> 0..MaxWaitTime] :
    InitLedger("caller",
               [k \in 1..Len(PIDS) |->
                  [RouteProcesses(PIDS, maxes, NoUnits(PIDS), Zeros(PIDS), Zeros(PIDS))[k]
                     EXCEPT !.wait_time = waits[k]]],
               NewResources(RIDS, [j \in Dims |-> MaxTotal]))

CheckStarvation ==
  /\ CanCall
  /\ \E time_threshold \in (0 - 1)..MaxWaitTime :
       Apply("check_starvation", [time_threshold |-> time_threshold],
             Ret(processes, resources, check_starvation(processes, time_threshold)))

NextStarvation == CheckStarvation

SpecStarvation == InitStarvation /\ [][NextStarvation]_vars

\* ------------------------------------------------------- producer-consumer
\* No ledger is involved in a call on a synchronization object.
NoLedger ==
  /\ session = "caller"
  /\ processes = <<>>
  /\ resources = <<>>
  /\ built = [processes |-> <<>>, resources |-> <<>>]
  /\ pre = [processes |-> <<>>, resources |-> <<>>]
  /\ last = NoCall
  /\ rr = RRIdle
  /\ wait_for_graph = <<>>
  /\ threads = <<>>

\* A call on the synchronization object that returns.
ApplySync(op, args, out) ==
  /\ sync' = out.object
  /\ sync_pre' = sync
  /\ last' = [op |-> op, args |-> args, result |-> out.result, raised |-> None]
  /\ UNCHANGED <<processes, resources, session, built, pre, rr, wait_for_graph, threads>>

Items == {"a", "b"}

\* ProducerConsumer(buffer_size), one producer and one consumer process.
InitBuffer ==
  /\ NoLedger
  /\ \E buffer_size \in 0..MaxBuffer :
       sync = NewProducerConsumer(buffer_size, {"producer", "consumer"})
  /\ sync_pre = sync

\* The waiting queues of the object hold at most MaxBlocked processes each.
QueuesWithin(pc) ==
  /\ Len(pc.empty.waiting_queue) <= MaxBlocked
  /\ Len(pc.full.waiting_queue) <= MaxBlocked
  /\ Len(pc.mutex.waiting_queue) <= MaxBlocked

Produce ==
  \E item \in Items :
    LET out == produce(sync, "producer", item)
    IN /\ sync.producer_count < MaxItems
       /\ QueuesWithin(out.object)
       /\ ApplySync("produce", [producer |-> "producer", item |-> item], out)

Consume ==
  LET out == consume(sync, "consumer")
  IN /\ QueuesWithin(out.object)
     /\ ApplySync("consume", [consumer |-> "consumer"], out)

NextBuffer ==
  \/ Produce
  \/ Consume

SpecBuffer == InitBuffer /\ [][NextBuffer]_vars

\* ------------------------------------------------------ dining philosophers
\* DiningPhilosophers(num_philosophers) with at least two philosophers.
InitDining ==
  /\ NoLedger
  /\ \E num_philosophers \in 2..MaxPhilosophers :
       sync = NewDiningPhilosophers(num_philosophers)
  /\ sync_pre = sync

RECURSIVE Waiting(_, _)
\* The number of entries in the waiting queues of chopsticks 0..n.
Waiting(dp, n) ==
  IF n < 0 THEN 0 ELSE Len(dp.chopsticks[n].waiting_queue) + Waiting(dp, n - 1)

\* Any philosopher may try to pick up, whatever its state.
Pickup ==
  \E philosopher_id \in 0..(sync.num_philosophers - 1) :
    LET out == pickup_chopsticks(sync, philosopher_id)
    IN /\ Waiting(out.object, sync.num_philosophers - 1) <= MaxBlocked
       /\ ApplySync("pickup_chopsticks", [philosopher_id |-> philosopher_id], out)

\* A philosopher that is eating puts its chopsticks down.
Putdown ==
  \E philosopher_id \in 0..(sync.num_philosophers - 1) :
    /\ sync.states[philosopher_id] = "eating"
    /\ ApplySync("putdown_chopsticks", [philosopher_id |-> philosopher_id],
                 putdown_chopsticks(sync, philosopher_id))

NextDining ==
  \/ Pickup
  \/ Putdown

SpecDining == InitDining /\ [][NextDining]_vars

\* ---------------------------------------------- two callers, one ledger
\* Two threads of a caller of the library call simulate_request on the same
\* lists of Process and Resource objects. The function takes no lock, so the
\* threads interleave between its three stages: the checks of the live
\* ledger, the deep copy with the safety check of the copy, and the loop
\* that applies the request to the live ledger.
Invocation(process_id, request) ==
  [process_id |-> process_id, request |-> request, pc |-> "check", result |-> None]

Invocations == {Invocation(process_id, request) :
                  process_id \in {PIDS[i] : i \in 1..Len(PIDS)},
                  request \in Vectors(MaxReq)}

InitConcurrent ==
  \E maxes \in Matrices(PIDS, MaxClaim), totals \in Vectors(MaxTotal) :
    /\ session = "caller"
    /\ processes = RouteProcesses(PIDS, maxes, NoUnits(PIDS), Zeros(PIDS), Zeros(PIDS))
    /\ resources = NewResources(RIDS, totals)
    /\ built = [processes |-> processes, resources |-> resources]
    /\ pre = built
    /\ last = NoCall
    /\ rr = RRIdle
    /\ wait_for_graph = <<>>
    /\ threads \in [1..2 -> Invocations]
    /\ sync = <<>>
    /\ sync_pre = <<>>

\* The thread returns.
Return(t, result) == [threads EXCEPT ![t].pc = "done", ![t].result = Some(result)]

\* The lookup and the two checks of the request against need_resources and
\* the available instances.
ThreadCheck(t) ==
  LET k == Lookup(processes, threads[t].process_id)
      request == threads[t].request
  IN /\ threads[t].pc = "check"
     /\ threads' =
          IF k = 0
            THEN Return(t, Denied("Process not found"))
          ELSE IF \E j \in ZipDom(request, processes[k].need_resources) :
                    request[j] > processes[k].need_resources[j]
            THEN Return(t, Denied("Request exceeds maximum claim"))
          ELSE IF \E j \in ZipDom(request, Available(resources)) :
                    request[j] > Available(resources)[j]
            THEN Return(t, Denied("Request exceeds available resources"))
          ELSE [threads EXCEPT ![t].pc = "clone"]
     /\ UNCHANGED <<processes, resources, session, built, pre, last, rr, wait_for_graph, sync, sync_pre>>

\* The deep copies of the ledger as it is now, the request applied to the
\* copies, and bankers_algorithm on the copies.
ThreadClone(t) ==
  LET k == Lookup(processes, threads[t].process_id)
      request == threads[t].request
      temp_processes == [processes EXCEPT ![k] = GrantProc(@, request)]
      temp_resources == GrantRes(resources, request)
  IN /\ threads[t].pc = "clone"
     /\ threads' =
          IF bankers_algorithm(temp_processes, temp_resources).result.safe
            THEN [threads EXCEPT ![t].pc = "commit"]
            ELSE Return(t, Denied("Request would lead to unsafe state"))
     /\ UNCHANGED <<processes, resources, session, built, pre, last, rr, wait_for_graph, sync, sync_pre>>

\* The loop that applies the request to the live ledger, and the return.
ThreadCommit(t) ==
  LET k == Lookup(processes, threads[t].process_id)
      request == threads[t].request
  IN /\ threads[t].pc = "commit"
     /\ processes' = [processes EXCEPT ![k] = GrantProc(@, request)]
     /\ resources' = GrantRes(resources, request)
     /\ threads' = Return(t, Granted("Request granted"))
     /\ UNCHANGED <<session, built, pre, last, rr, wait_for_graph, sync, sync_pre>>

NextConcurrent ==
  \E t \in 1..2 :
    \/ ThreadCheck(t)
    \/ ThreadClone(t)
    \/ ThreadCommit(t)

SpecConcurrent == InitConcurrent /\ [][NextConcurrent]_vars

\* ------------------------------------------ vectors of the wrong length
\* A caller of the library passes request and release vectors whose length
\* is not the number of resources: one entry short, or one entry long.
WrongLengths == {Len(RIDS) - 1, Len(RIDS) + 1}
WrongVectors == UNION {[1..len -> 0..MaxReq] : len \in WrongLengths}
WrongBatches(procs) == [1..1 -> [pid : CallPids(procs), request : WrongVectors]]

InitLength ==
  \E maxes \in Matrices(PIDS, MaxClaim), totals \in Vectors(MaxTotal) :
    InitLedger("caller",
               RouteProcesses(PIDS, maxes, NoUnits(PIDS), Zeros(PIDS), Zeros(PIDS)),
               NewResources(RIDS, totals))

SimulateRequestLength == SimulateRequestOf(CallPids(processes), WrongVectors)
DeallocateLength == DeallocateOf(CallPids(processes), WrongVectors)
FcfsLength == FcfsOf(WrongBatches(processes))
PriorityLength == PriorityOf(WrongBatches(processes))

NextLength ==
  \/ SimulateRequestLength
  \/ DeallocateLength
  \/ FcfsLength
  \/ PriorityLength

SpecLength == InitLength /\ [][NextLength]_vars

\* ------------------------------------------------------------------ claims
\* allocated_resources[i] summed over all processes.
Allocated(procs, i) ==
  SumTo([k \in 1..Len(procs) |-> procs[k].allocated_resources[i]], Len(procs))

Conserved(procs, res) ==
  \A i \in 1..Len(res) :
    res[i].available_instances + Allocated(procs, i) = res[i].total_instances

WithinClaim(procs) ==
  \A k \in 1..Len(procs) : \A i \in 1..Len(procs[k].max_resources) :
    /\ 0 <= procs[k].allocated_resources[i]
    /\ procs[k].allocated_resources[i] <= procs[k].max_resources[i]

\* C1 (conservation): in every state of a ledger built from input records and
\* then run through the operations, every resource has
\* available_instances + (allocated_resources summed over the processes)
\* = total_instances.
C1_Conservation == Conserved(processes, resources)

\* C2 (claim bound): a ledger constructed with 0 <= allocated <= max for every
\* process and resource keeps allocated <= max (need >= 0) for every process
\* under the operations.
C2_ClaimBound ==
  WithinClaim(built.processes) =>
    \A k \in 1..Len(processes) : \A i \in 1..Len(processes[k].max_resources) :
      /\ processes[k].allocated_resources[i] <= processes[k].max_resources[i]
      /\ processes[k].need_resources[i] >= 0

\* The last call was a single-request admission call.
IsRequest == last.op \in {"simulate_request", "simulate_request_bankers"}

\* The process named by the last call, as it was when the call was made (0: none).
Asked == Lookup(pre.processes, last.args.process_id)

\* C3 (denial frame): whenever simulate_request / simulate_request_bankers
\* returns granted = false, for any of its four reasons, the ledger is the one
\* the call found: every allocated_resources, need_resources and
\* available_instances is unchanged.
C3_DenialLeavesLedger ==
  (IsRequest /\ ~last.result.granted) => Ledger = pre

\* An unsafe-state denial has happened.
C3_Witness ==
  /\ IsRequest
  /\ last.result.message = "Request would lead to unsafe state"
  /\ \E j \in 1..Len(last.args.request) : last.args.request[j] > 0

\* The ledger with the request added to the allocation of process k and taken
\* from its need and from availability.
Tentative(ledger, k, request) ==
  [processes |->
     [ledger.processes EXCEPT
        ![k].allocated_resources = [j \in 1..Len(@) |-> @[j] + request[j]],
        ![k].need_resources = [j \in 1..Len(@) |-> @[j] - request[j]]],
   resources |->
     [j \in 1..Len(ledger.resources) |->
        [ledger.resources[j] EXCEPT !.available_instances = @ - request[j]]]]

\* C4 (admission rule): simulate_request grants if and only if the process
\* exists, request <= need and request <= available in every dimension, and
\* bankers_algorithm reports the ledger with the request applied safe.
C4_GrantedIff ==
  IsRequest =>
    (last.result.granted <=>
       /\ Asked # 0
       /\ \A j \in 1..Len(last.args.request) :
            /\ last.args.request[j] <= pre.processes[Asked].need_resources[j]
            /\ last.args.request[j] <= pre.resources[j].available_instances
       /\ LET t == Tentative(pre, Asked, last.args.request)
          IN bankers_algorithm(t.processes, t.resources).result.safe)

\* A non-zero request has been granted.
C4_Witness ==
  /\ IsRequest
  /\ last.result.granted
  /\ \E j \in 1..Len(last.args.request) : last.args.request[j] > 0

\* C9 (order of the preconditions): an unknown process id yields 'not found'
\* whatever the request; a request above the need in some dimension yields
\* 'Request exceeds maximum claim' even when it is above availability too; a
\* request within the need and above availability in some dimension yields
\* 'Request exceeds available resources'.
C9_FirstFailureReported ==
  IsRequest =>
    LET request == last.args.request
        overNeed == \E j \in 1..Len(request) :
                      request[j] > pre.processes[Asked].need_resources[j]
        overAvail == \E j \in 1..Len(request) :
                       request[j] > pre.resources[j].available_instances
    IN /\ Asked = 0 => last.result.message = "Process not found"
       /\ (Asked # 0 /\ overNeed) =>
            last.result.message = "Request exceeds maximum claim"
       /\ (Asked # 0 /\ ~overNeed /\ overAvail) =>
            last.result.message = "Request exceeds available resources"
       /\ (Asked = 0 \/ overNeed \/ overAvail) => ~last.result.granted

\* A request above both the need and availability was reported as a claim excess.
C9_Witness ==
  /\ IsRequest
  /\ Asked # 0
  /\ \E j \in 1..Len(last.args.request) :
       last.args.request[j] > pre.processes[Asked].need_resources[j]
  /\ \E j \in 1..Len(last.args.request) :
       last.args.request[j] > pre.resources[j].available_instances
  /\ last.result.message = "Request exceeds maximum claim"

\* The last call was bankers_algorithm.
IsBankers == last.op = "bankers_algorithm"

\* The orders in which n processes can be taken.
Orders(n) == {f \in [1..n -> 1..n] : \A a, b \in 1..n : f[a] = f[b] => a = b}

\* available plus the allocations of the first k processes of the order (given
\* as indices into procs).
WorkAfter(procs, res, order, k) ==
  [j \in 1..Len(res) |->
     res[j].available_instances
       + SumTo([h \in 1..k |-> procs[order[h]].allocated_resources[j]], k)]

\* Feasibility replay: each process of the order, in turn, has its need within
\* available plus the allocations of the processes before it.
Replays(procs, res, order) ==
  \A k \in 1..Len(order) :
    \A j \in 1..Len(res) :
      procs[order[k]].need_resources[j] <= WorkAfter(procs, res, order, k - 1)[j]

\* C5 (safety decided exactly): bankers_algorithm returns safe = true if and
\* only if some order of all the processes passes the feasibility replay.
C5_SafeIffOrderExists ==
  IsBankers =>
    (last.result.safe <=>
       \E order \in Orders(Len(pre.processes)) :
         Replays(pre.processes, pre.resources, order))

\* A safe verdict for a ledger whose first process cannot go first.
C5_Witness ==
  /\ IsBankers
  /\ last.result.safe
  /\ Len(pre.processes) > 0
  /\ last.result.safe_sequence[1][1] # pre.processes[1].pid

\* The Scenario A records: max demands, allocations and totals.
IsScenarioA(ledger) ==
  /\ ledger.processes =
       RouteProcesses(PIDS_A, ScenarioMax, ScenarioAllocated, Zeros(PIDS_A), Zeros(PIDS_A))
  /\ \A j \in 1..Len(ledger.resources) :
       /\ ledger.resources[j].rid = RIDS_A[j]
       /\ ledger.resources[j].total_instances = ScenarioTotals[j]

\* Scenario A with available = totals minus allocations.
IsScenarioAState(ledger) ==
  /\ IsScenarioA(ledger)
  /\ Available(ledger.resources) = <<3, 3, 2>>

\* C6 (the order returned): when bankers_algorithm returns safe = true, the
\* safe_sequence holds every pid exactly once and passes the feasibility
\* replay; and the Scenario A ledger is reported safe.
C6_SafeSequenceValid ==
  IsBankers =>
    /\ last.result.safe =>
         LET seq == last.result.safe_sequence[1]
             order == [k \in 1..Len(seq) |-> Lookup(pre.processes, seq[k])]
         IN /\ Len(seq) = Len(pre.processes)
            /\ \A i \in 1..Len(pre.processes) :
                 Cardinality({k \in 1..Len(seq) : seq[k] = pre.processes[i].pid}) = 1
            /\ Replays(pre.processes, pre.resources, order)
    /\ IsScenarioA(pre) => last.result.safe

\* Scenario A, with available = <<3, 3, 2>>, has been reported safe.
C6_Witness ==
  /\ IsBankers
  /\ IsScenarioAState(pre)
  /\ last.result.safe

\* C7 (scan order): the k-th pid of the safe sequence is the pid of the lowest
\* index among the processes not yet in the sequence whose need is within the
\* working vector after the first k-1 grants.
C7_ScanOrder ==
  (IsBankers /\ last.result.safe) =>
    LET procs == pre.processes
        seq == last.result.safe_sequence[1]
        order == [k \in 1..Len(seq) |-> Lookup(procs, seq[k])]
        open(k) == {i \in 1..Len(procs) :
                      /\ \A h \in 1..(k - 1) : order[h] # i
                      /\ Fits(procs[i], WorkAfter(procs, pre.resources, order, k - 1))}
    IN \A k \in 1..Len(seq) :
         /\ open(k) # {}
         /\ seq[k] = procs[Min(open(k))].pid

\* After a grant the scan went back to a lower index although a process of a
\* higher index could have been taken.
C7_Witness ==
  /\ IsBankers
  /\ last.result.safe
  /\ LET procs == pre.processes
         seq == last.result.safe_sequence[1]
         order == [k \in 1..Len(seq) |-> Lookup(procs, seq[k])]
     IN \E k \in 2..Len(seq) :
          /\ order[k] < order[k - 1]
          /\ \E i \in (order[k - 1] + 1)..Len(procs) :
               /\ \A h \in 1..(k - 1) : order[h] # i
               /\ Fits(procs[i], WorkAfter(procs, pre.resources, order, k - 1))

\* C8 (read-only, idempotent): a call of bankers_algorithm leaves the ledger as
\* it was; an unsafe result carries safe_sequence = None; and a call that
\* follows another call directly returns what that call returned.
C8_ReadOnlyIdempotent ==
  [][last'.op = "bankers_algorithm" =>
       /\ processes' = processes
       /\ resources' = resources
       /\ ~last'.result.safe => last'.result.safe_sequence = None
       /\ last.op = "bankers_algorithm" => last'.result = last.result]_vars

\* An unsafe verdict after the scan had already finished some process.
C8_Witness ==
  /\ IsBankers
  /\ ~last.result.safe
  /\ last.result.safe_sequence = None
  /\ Ledger = pre
  /\ FirstEligible(pre.processes, Available(pre.resources),
                   [i \in 1..Len(pre.processes) |-> FALSE]) # 0

\* The last call was Scenario B: process 1 asked for <<1, 0, 2>> in the
\* Scenario A state.
IsScenarioB ==
  /\ last.op = "simulate_request"
  /\ last.args = [process_id |-> PIDS_A[2], request |-> ScenarioRequest]
  /\ IsScenarioAState(pre)

\* C10 as stated (Scenario B): the request is denied, for insufficient
\* resources or for an unsafe state, and the ledger is unchanged.
C10_ScenarioBDenied ==
  IsScenarioB =>
    /\ ~last.result.granted
    /\ last.result.message \in {"Request exceeds available resources",
                                "Request would lead to unsafe state"}
    /\ Ledger = pre

\* C10 as amended (Scenario B): the request is granted; process 1 then holds
\* <<3, 0, 2>> and needs <<0, 2, 0>>, available is <<2, 3, 0>>, and the other
\* processes are as they were.
C10_ScenarioBGranted ==
  IsScenarioB =>
    /\ last.result = Granted("Request granted")
    /\ processes[2].allocated_resources = <<3, 0, 2>>
    /\ processes[2].need_resources = <<0, 2, 0>>
    /\ Available(resources) = <<2, 3, 0>>
    /\ \A i \in 1..Len(processes) : i # 2 => processes[i] = pre.processes[i]

\* Scenario B has been played.
C10_Witness == IsScenarioB

\* ---- C11, C12: release
\* The last call granted one allocation: simulate_request_bankers, or
\* fcfs_allocation with a batch of one request.
IsGrantedAllocation ==
  \/ last.op = "simulate_request_bankers" /\ last.result.granted
  \/ /\ last.op = "fcfs_allocation"
     /\ Len(last.args.requests) = 1
     /\ last.result[1].granted

\* The process and the vector of that allocation.
AllocationOf ==
  IF last.op = "fcfs_allocation"
    THEN [process_id |-> last.args.requests[1].pid, release |-> last.args.requests[1].request]
    ELSE [process_id |-> last.args.process_id, release |-> last.args.request]

\* C11: a granted allocation of v to p (simulate_request_bankers, or a granted
\* fcfs_allocation request) followed immediately by deallocate_resources(p, v)
\* succeeds and gives back the ledger as it was before the allocation: the same
\* available_instances, allocated_resources and need_resources.
C11_RoundTrip ==
  [][(/\ IsGrantedAllocation
      /\ last'.op = "deallocate_resources"
      /\ last'.args = AllocationOf)
     => (/\ last'.result.success
         /\ processes' = pre.processes
         /\ resources' = pre.resources)]_vars

\* A release has just undone a grant of a non-zero vector: the ledger before
\* the release is the constructed ledger with the vector granted, and the
\* ledger after it is the constructed ledger.
C11_Witness ==
  /\ last.op = "deallocate_resources"
  /\ last.result.success
  /\ \E j \in 1..Len(last.args.release) : last.args.release[j] > 0
  /\ LET k == Lookup(built.processes, last.args.process_id)
     IN /\ k # 0
        /\ pre.processes = [built.processes EXCEPT ![k] = GrantProc(@, last.args.release)]
        /\ pre.resources = GrantRes(built.resources, last.args.release)
  /\ processes = built.processes
  /\ resources = built.resources

\* The release vector exceeds the allocation of process k in some dimension.
OutOfRange(ledger, k, release) ==
  \E j \in 1..Len(release) : release[j] > ledger.processes[k].allocated_resources[j]

\* C12: deallocate_resources fails and leaves the ledger unchanged when the
\* process is unknown or release[i] > allocated_resources[i] for some i;
\* otherwise it subtracts release[i] from allocated, adds it to need and to
\* available_instances in every dimension, changes nothing else, and succeeds.
C12_ReleaseAllOrNothing ==
  last.op = "deallocate_resources" =>
    LET k == Lookup(pre.processes, last.args.process_id)
        release == last.args.release
    IN IF k = 0 \/ OutOfRange(pre, k, release)
         THEN ~last.result.success /\ Ledger = pre
         ELSE /\ last.result.success
              /\ \A i \in 1..Len(processes) :
                   /\ processes[i].max_resources = pre.processes[i].max_resources
                   /\ \A j \in 1..Len(release) :
                        /\ processes[i].allocated_resources[j] =
                             pre.processes[i].allocated_resources[j]
                               - (IF i = k THEN release[j] ELSE 0)
                        /\ processes[i].need_resources[j] =
                             pre.processes[i].need_resources[j]
                               + (IF i = k THEN release[j] ELSE 0)
              /\ \A j \in 1..Len(release) :
                   /\ resources[j].available_instances =
                        pre.resources[j].available_instances + release[j]
                   /\ resources[j].total_instances = pre.resources[j].total_instances

\* A release was refused although one of its dimensions, taken alone, was in
\* range and non-zero.
C12_Witness ==
  /\ last.op = "deallocate_resources"
  /\ ~last.result.success
  /\ LET k == Lookup(pre.processes, last.args.process_id)
     IN /\ k # 0
        /\ \E j \in 1..Len(last.args.release) :
             /\ last.args.release[j] > 0
             /\ last.args.release[j] <= pre.processes[k].allocated_resources[j]

\* ---- C13, C14: detection
\* k is a key of the graph and waits for m.
WaitsFor(graph, k, m) ==
  \E i \in 1..Len(graph) :
    graph[i].pid = k /\ \E n \in 1..Len(graph[i].waits_for) : graph[i].waits_for[n] = m

\* The graph has a directed cycle: a closed walk along its edges.
HasDirectedCycle(graph) ==
  \E len \in 1..Len(graph) :
    \E walk \in [1..len -> {graph[i].pid : i \in 1..Len(graph)}] :
      /\ \A n \in 1..(len - 1) : WaitsFor(graph, walk[n], walk[n + 1])
      /\ WaitsFor(graph, walk[len], walk[1])

\* C13: detect_deadlock_wait_for_graph reports deadlock_detected = true if and
\* only if the graph has a directed cycle (a self-loop counts), whatever the
\* graph: with edge targets that are not keys, with several components.
C13_DetectedIffCycle ==
  last.op = "detect_deadlock_wait_for_graph" =>
    (last.result.deadlock_detected <=> HasDirectedCycle(last.args.wait_for_graph))

\* A cycle was found that the search from the first key does not meet, in a
\* graph with an edge to a process that is not a key.
C13_Witness ==
  /\ last.op = "detect_deadlock_wait_for_graph"
  /\ last.result.deadlock_detected
  /\ LET graph == last.args.wait_for_graph
     IN /\ graph[1].pid \notin last.result.deadlocked_processes
        /\ \E i \in 1..Len(graph) : \E n \in 1..Len(graph[i].waits_for) :
             \A k \in 1..Len(graph) : graph[k].pid # graph[i].waits_for[n]

\* Process i of the ledger needs more of some resource than is available.
NeedExceeds(ledger, i) ==
  \E j \in 1..Len(ledger.resources) :
    ledger.processes[i].need_resources[j] > ledger.resources[j].available_instances

\* C14: detect_deadlock_resource_allocation lists exactly the processes with
\* need_resources[i] > available_instances[i] for some resource i, in input
\* order; deadlock_detected is true iff the list is not empty; the ledger is
\* not modified.
C14_ScanFlags ==
  last.op = "detect_deadlock_resource_allocation" =>
    LET flagged == {i \in 1..Len(pre.processes) : NeedExceeds(pre, i)}
        deadlocked == last.result.deadlocked_processes
    IN /\ Len(deadlocked) = Cardinality(flagged)
       /\ \E at \in [1..Len(deadlocked) -> flagged] :
            /\ \A a, b \in 1..Len(deadlocked) : a < b => at[a] < at[b]
            /\ \A n \in 1..Len(deadlocked) : deadlocked[n] = pre.processes[at[n]].pid
       /\ last.result.deadlock_detected <=> Len(deadlocked) > 0
       /\ Ledger = pre

\* The scan flagged the second process only, for one resource of two.
C14_Witness ==
  /\ last.op = "detect_deadlock_resource_allocation"
  /\ last.result.deadlocked_processes = <<"P1">>
  /\ \E j \in Dims :
       processes[2].need_resources[j] <= resources[j].available_instances

\* ---- C15, C16, C17: fcfs_allocation and priority_allocation
RECURSIVE GrantedUnits(_, _, _, _, _)
\* The units of resource j granted by the first n results to the processes
\* named in pids.
GrantedUnits(requests, results, n, j, pids) ==
  IF n = 0
    THEN 0
    ELSE GrantedUnits(requests, results, n - 1, j, pids)
           + (IF results[n].granted /\ requests[n].pid \in pids
                THEN requests[n].request[j] ELSE 0)

\* The FCFS admission rule, for requests decided in the order given: one result
\* per request; a request is granted iff its process exists and the request is
\* componentwise within what is available when it is decided; the ledger
\* changes by the granted requests and by nothing else.
FcfsRule(before, requests, results, after) ==
  LET pids == CallPids(before.processes)
      R == 1..Len(before.resources)
  IN /\ Len(results) = Len(requests)
     /\ \A n \in 1..Len(requests) :
          results[n].granted <=>
            /\ Lookup(before.processes, requests[n].pid) # 0
            /\ \A j \in R :
                 requests[n].request[j] <=
                   before.resources[j].available_instances
                     - GrantedUnits(requests, results, n - 1, j, pids)
     /\ Len(after.processes) = Len(before.processes)
     /\ \A i \in 1..Len(before.processes) :
          LET units(j) == GrantedUnits(requests, results, Len(requests), j,
                                       {before.processes[i].pid})
          IN /\ after.processes[i].pid = before.processes[i].pid
             /\ after.processes[i].max_resources = before.processes[i].max_resources
             /\ \A j \in R :
                  /\ after.processes[i].allocated_resources[j] =
                       before.processes[i].allocated_resources[j] + units(j)
                  /\ after.processes[i].need_resources[j] =
                       before.processes[i].need_resources[j] - units(j)
     /\ \A j \in R :
          /\ after.resources[j].total_instances = before.resources[j].total_instances
          /\ after.resources[j].available_instances =
               before.resources[j].available_instances
                 - GrantedUnits(requests, results, Len(requests), j, pids)

\* The process of the ledger that a request names.
Owner(ledger, request) == ledger.processes[Lookup(ledger.processes, request.pid)]

\* Two requests of known processes that each fit what is available and do not
\* fit together.
Compete(ledger, r1, r2) ==
  /\ Lookup(ledger.processes, r1.pid) # 0
  /\ Lookup(ledger.processes, r2.pid) # 0
  /\ CanGrant(ledger.resources, r1.request)
  /\ CanGrant(ledger.resources, r2.request)
  /\ \E j \in 1..Len(ledger.resources) :
       r1.request[j] + r2.request[j] > ledger.resources[j].available_instances

\* C15: fcfs_allocation decides a batch in ascending arrival_time of the owning
\* processes, whatever the position in the batch: of two competing requests,
\* the one of the earlier-arrived process is granted even when it comes later
\* in the batch.
C15_ArrivalOrderDecides ==
  (last.op = "fcfs_allocation" /\ Len(last.args.requests) = 2) =>
    LET r1 == last.args.requests[1]
        r2 == last.args.requests[2]
    IN (/\ Compete(pre, r1, r2)
        /\ Owner(pre, r2).arrival_time < Owner(pre, r1).arrival_time)
       => last.result[2].granted

\* C16: fcfs_allocation decides every request once, in batch order, by the
\* FCFS admission rule: granted iff request <= available in every dimension
\* when it is decided; a grant moves the whole request, a denial changes
\* nothing and is not retried.
C16_FcfsAdmission ==
  last.op = "fcfs_allocation" =>
    FcfsRule(pre, last.args.requests, last.result, Ledger)

\* Totals [1,1], two processes each requesting [1,1]: the first request is
\* granted, the second is denied, and nothing is left available.
C16_Witness ==
  /\ last.op = "fcfs_allocation"
  /\ Len(last.args.requests) = 2
  /\ \A j \in Dims : built.resources[j].total_instances = 1
  /\ \A n \in 1..2 : \A j \in Dims : last.args.requests[n].request[j] = 1
  /\ Lookup(pre.processes, last.args.requests[1].pid) # 0
  /\ Lookup(pre.processes, last.args.requests[2].pid) # 0
  /\ last.args.requests[1].pid # last.args.requests[2].pid
  /\ last.result[1].granted
  /\ ~last.result[2].granted
  /\ \A j \in Dims : resources[j].available_instances = 0

\* The requests of the batch that name a process of the ledger.
Found(ledger, requests) ==
  SelectSeq(requests, LAMBDA r : Lookup(ledger.processes, r.pid) # 0)

\* The orders of n requests.
DecisionOrders(n) ==
  {f \in [1..n -> 1..n] : \A a, b \in 1..n : a # b => f[a] # f[b]}

\* C17: priority_allocation decides the requests of known processes in an
\* order of non-increasing priority of the owning process, each by the FCFS
\* admission rule at its turn.
C17_PriorityOrder ==
  last.op = "priority_allocation" =>
    LET found == Found(pre, last.args.requests)
    IN \E order \in DecisionOrders(Len(found)) :
         /\ \A a, b \in 1..Len(found) :
              a < b => Owner(pre, found[order[a]]).priority
                         >= Owner(pre, found[order[b]]).priority
         /\ FcfsRule(pre, [n \in 1..Len(found) |-> found[order[n]]], last.result, Ledger)

\* Of two competing requests, the one of the higher-priority process came
\* second in the batch and was decided first: it was granted, the other denied.
C17_Witness ==
  /\ last.op = "priority_allocation"
  /\ Len(last.args.requests) = 2
  /\ Compete(pre, last.args.requests[1], last.args.requests[2])
  /\ Owner(pre, last.args.requests[1]).priority
       < Owner(pre, last.args.requests[2]).priority
  /\ Len(last.result) = 2
  /\ last.result[1].granted
  /\ ~last.result[2].granted
  /\ Owner(Ledger, last.args.requests[1]).allocated_resources
       = Owner(pre, last.args.requests[1]).allocated_resources

\* ---- C18, C19, C20: results of the batch policies
\* The call record of a batch policy that has returned, and its result list.
IsBatchReturn ==
  \/ last.op \in {"fcfs_allocation", "priority_allocation"}
  \/ last.op = "round_robin_allocation" /\ last.result # None

BatchResults ==
  IF last.op = "round_robin_allocation" THEN last.result[1] ELSE last.result

\* C18: the list a batch policy returns holds one result per submitted
\* request: its length is the length of the batch.
C18_OneResultPerRequest ==
  IsBatchReturn => Len(BatchResults) = Len(last.args.requests)

\* C19: a request that names a process absent from the ledger yields a denial
\* with a 'not found' message for that request and leaves the ledger unchanged,
\* in simulate_request_bankers, deallocate_resources and the batch policies.
C19_UnknownProcessDenied ==
  /\ (/\ last.op = "simulate_request_bankers"
      /\ Lookup(pre.processes, last.args.process_id) = 0)
     => (/\ ~last.result.granted
         /\ last.result.message = "Process not found"
         /\ Ledger = pre)
  /\ (/\ last.op = "deallocate_resources"
      /\ Lookup(pre.processes, last.args.process_id) = 0)
     => (/\ ~last.result.success
         /\ last.result.message = "Process not found"
         /\ Ledger = pre)
  /\ IsBatchReturn
     => (/\ Cardinality({n \in 1..Len(BatchResults) :
                           /\ ~BatchResults[n].granted
                           /\ BatchResults[n].message = "Process not found"})
            = Cardinality({n \in 1..Len(last.args.requests) :
                             Lookup(pre.processes, last.args.requests[n].pid) = 0})
         /\ (\A n \in 1..Len(last.args.requests) :
               Lookup(pre.processes, last.args.requests[n].pid) = 0)
            => Ledger = pre)

\* C20: round_robin_allocation terminates. A call that terminates never
\* reaches an iteration that leaves the queue and the ledger as it found them,
\* since the next iteration then starts from the same locals.
C20_RoundRobinTerminates ==
  (rr.running /\ rr.queue # <<>>) =>
    LET out == round_robin_iteration(processes, resources, rr.queue, rr.results,
                                     rr.time_quantum)
    IN ~(/\ out.queue = rr.queue
         /\ out.processes = processes
         /\ out.resources = resources)

\* ---- C21, C22: fair_share_allocation
\* The share of resource i for the j-th process of n (j counted from 1; the
\* first `total mod n` processes get one instance more), capped by its max.
Share(ledger, i, j) ==
  LET n == Len(ledger.processes)
      total == ledger.resources[i].total_instances
      even == total \div n
      extra == IF j - 1 < total % n THEN 1 ELSE 0
      cap == ledger.processes[j].max_resources[i]
  IN IF even + extra <= cap THEN even + extra ELSE cap

\* C21: fair_share_allocation sets, for every resource i and the j-th process,
\* allocated_resources[i] = min(total div n + (1 if j < total mod n else 0),
\* max_resources[i]) and need_resources[i] = max_resources[i] - allocated,
\* whatever the process held before.
C21_FairShareFormula ==
  last.op = "fair_share_allocation" =>
    \A j \in 1..Len(processes) : \A i \in 1..Len(resources) :
      /\ processes[j].allocated_resources[i] = Share(pre, i, j)
      /\ processes[j].need_resources[i] =
           pre.processes[j].max_resources[i] - Share(pre, i, j)
      /\ processes[j].max_resources = pre.processes[j].max_resources

\* Scenario D with every max at 4 or above: the allocations are 4, 3, 3.
C21_Witness ==
  /\ last.op = "fair_share_allocation"
  /\ Len(processes) = 3
  /\ resources[1].total_instances = 10
  /\ \A j \in 1..3 : processes[j].max_resources[1] >= 4
  /\ processes[1].allocated_resources = <<4>>
  /\ processes[2].allocated_resources = <<3>>
  /\ processes[3].allocated_resources = <<3>>

\* C22: fair_share_allocation replaces: whatever the ledger was, afterwards
\* available_instances[i] = total_instances[i] minus the allocations it has
\* just assigned for resource i (so a second run changes nothing).
C22_FairShareReplaces ==
  last.op = "fair_share_allocation" =>
    \A i \in 1..Len(resources) :
      resources[i].available_instances =
        resources[i].total_instances - Allocated(processes, i)

\* C23: a request or release vector whose length is not the number of
\* resources is rejected and the ledger is left as it was: the call neither
\* returns a grant nor changes a process or a resource, in simulate_request,
\* in deallocate_resources and in the batch policies.
VectorsOfCall ==
  IF last.op \in {"simulate_request", "simulate_request_bankers"}
    THEN {last.args.request}
  ELSE IF last.op = "deallocate_resources"
    THEN {last.args.release}
  ELSE IF last.op \in {"fcfs_allocation", "priority_allocation"}
    THEN {last.args.requests[n].request : n \in 1..Len(last.args.requests)}
  ELSE {}

Accepted ==
  /\ last.raised = None
  /\ IF last.op \in {"simulate_request", "simulate_request_bankers"}
       THEN last.result.granted
     ELSE IF last.op = "deallocate_resources"
       THEN last.result.success
     ELSE \E n \in 1..Len(last.result) : last.result[n].granted

C23_LengthValidated ==
  (\E v \in VectorsOfCall : Len(v) # Len(pre.resources))
    => Ledger = pre /\ ~Accepted

\* C24: two simulate_request invocations interleaved on one ledger end as
\* one of the two serial orders would: the same ledger and the same two
\* decisions; and no resource's available_instances is ever negative.
SerialOutcome(first, second) ==
  LET a == simulate_request(built.processes, built.resources,
                            threads[first].process_id, threads[first].request)
      b == simulate_request(a.processes, a.resources,
                            threads[second].process_id, threads[second].request)
  IN /\ processes = b.processes
     /\ resources = b.resources
     /\ threads[first].result[1].granted = a.result.granted
     /\ threads[second].result[1].granted = b.result.granted

C25_AdmissionKeepsSafe ==
  bankers_algorithm(processes, resources).result.safe

\* Both processes hold units after a grant to each, and a non-zero release
\* has just succeeded.
C25_Witness ==
  /\ last.op = "deallocate_resources"
  /\ last.result.success
  /\ \E j \in 1..Len(last.args.release) : last.args.release[j] > 0
  /\ \A k \in 1..Len(pre.processes) :
       \E j \in 1..Len(pre.resources) : pre.processes[k].allocated_resources[j] > 0

\* C26: a granted simulate_request changes the ledger by the request and by
\* nothing else: the requesting process's allocated_resources rise and its
\* need_resources fall by request[i], available_instances fall by request[i],
\* and the other processes, the other fields and total_instances stay.
C26_GrantChangesByRequest ==
  (last.op = "simulate_request" /\ last.result.granted) =>
    LET request == last.args.request
    IN /\ Len(processes) = Len(pre.processes)
       /\ Len(resources) = Len(pre.resources)
       /\ \A k \in 1..Len(processes) :
            IF processes[k].pid = last.args.process_id
              THEN /\ \A i \in 1..Len(request) :
                        /\ processes[k].allocated_resources[i]
                             = pre.processes[k].allocated_resources[i] + request[i]
                        /\ processes[k].need_resources[i]
                             = pre.processes[k].need_resources[i] - request[i]
                   /\ [processes[k] EXCEPT !.allocated_resources = <<>>,
                                           !.need_resources = <<>>]
                        = [pre.processes[k] EXCEPT !.allocated_resources = <<>>,
                                                   !.need_resources = <<>>]
              ELSE processes[k] = pre.processes[k]
       /\ \A i \in 1..Len(resources) :
            /\ resources[i].available_instances
                 = pre.resources[i].available_instances - request[i]
            /\ resources[i].total_instances = pre.resources[i].total_instances
            /\ resources[i].rid = pre.resources[i].rid

\* A request for a unit of every resource has been granted while the other
\* process holds units.
C26_Witness ==
  /\ last.op = "simulate_request"
  /\ last.result.granted
  /\ \A i \in 1..Len(last.args.request) : last.args.request[i] > 0
  /\ \E k \in 1..Len(pre.processes) :
       /\ pre.processes[k].pid # last.args.process_id
       /\ \E i \in 1..Len(pre.resources) : pre.processes[k].allocated_resources[i] > 0

\* ---- C27, C28: what the wait-for search reports
Keys(graph) == {graph[i].pid : i \in 1..Len(graph)}

\* The paths a depth-first search from root can have on its recursion stack
\* when it meets a cycle: distinct processes from root on, each waiting for
\* the next, the last one waiting for a process of the path.
ClosingPaths(graph, root) ==
  UNION {{path \in [1..len -> Keys(graph)] :
            /\ path[1] = root
            /\ \A a, b \in 1..len : a # b => path[a] # path[b]
            /\ \A n \in 1..(len - 1) : WaitsFor(graph, path[n], path[n + 1])
            /\ \E n \in 1..len : WaitsFor(graph, path[len], path[n])} :
           len \in 1..Len(graph)}

\* The process lies on a directed cycle of the graph.
OnCycle(graph, k) ==
  \E len \in 1..Len(graph) :
    \E walk \in [1..len -> Keys(graph)] :
      /\ walk[1] = k
      /\ \A n \in 1..(len - 1) : WaitsFor(graph, walk[n], walk[n + 1])
      /\ WaitsFor(graph, walk[len], walk[1])

\* C27: when a cycle is found, deadlocked_processes is the recursion stack
\* at that moment: the processes of a search path from the search root (the
\* first key, in insertion order, from which a cycle is reached) to a
\* process that waits for a process of the path, the whole cycle included;
\* when the graph has no cycle the list is empty.
C27_ReportedIsStack ==
  last.op = "detect_deadlock_wait_for_graph" =>
    LET graph == last.args.wait_for_graph
        reported == last.result.deadlocked_processes
        roots == {i \in 1..Len(graph) : ClosingPaths(graph, graph[i].pid) # {}}
    IN IF roots = {}
         THEN reported = {}
         ELSE \E path \in ClosingPaths(graph, graph[Min(roots)].pid) :
                reported = {path[n] : n \in 1..Len(path)}

\* A cycle of two was met below a root that is not the first key, and a
\* reported process also waits for a process that is not reported.
C27_Witness ==
  /\ last.op = "detect_deadlock_wait_for_graph"
  /\ last.result.deadlock_detected
  /\ LET graph == last.args.wait_for_graph
         reported == last.result.deadlocked_processes
     IN /\ Cardinality(reported) >= 2
        /\ graph[1].pid \notin reported
        /\ \E k \in reported : \E m \in Keys(graph) \ reported : WaitsFor(graph, k, m)

\* C28 as stated: every reported process lies on a directed cycle of the
\* graph.
C28_ReportedOnCycle ==
  last.op = "detect_deadlock_wait_for_graph" =>
    \A k \in last.result.deadlocked_processes :
      OnCycle(last.args.wait_for_graph, k)

\* C28 amended: every reported process lies on a directed cycle or on a path
\* of waits that leads into one, and the processes of one directed cycle are
\* all reported.
C28_ReportedLeadToCycle ==
  (last.op = "detect_deadlock_wait_for_graph" /\ last.result.deadlock_detected) =>
    LET graph == last.args.wait_for_graph
        reported == last.result.deadlocked_processes
    IN /\ \A k \in reported : ClosingPaths(graph, k) # {}
       /\ \E k \in reported :
            \E len \in 1..Len(graph) :
              \E walk \in [1..len -> reported] :
                /\ walk[1] = k
                /\ \A n \in 1..(len - 1) : WaitsFor(graph, walk[n], walk[n + 1])
                /\ WaitsFor(graph, walk[len], walk[1])

\* A process that waits for a cycle without being on one has been reported.
C28_Witness ==
  /\ last.op = "detect_deadlock_wait_for_graph"
  /\ \E k \in last.result.deadlocked_processes :
       ~OnCycle(last.args.wait_for_graph, k)

\* C29: the need-against-availability scan reports a deadlock on every
\* ledger that bankers_algorithm reports unsafe (a scan that flags no process
\* means a safe state); it may also report one on a safe ledger.
C29_ScanCoversUnsafe ==
  last.op = "detect_deadlock_resource_allocation" =>
    (~bankers_algorithm(pre.processes, pre.resources).result.safe
       => last.result.deadlock_detected)

\* The scan ran on an unsafe ledger in which one process can still finish.
C29_Witness ==
  /\ last.op = "detect_deadlock_resource_allocation"
  /\ ~bankers_algorithm(pre.processes, pre.resources).result.safe
  /\ Len(last.result.deadlocked_processes) < Len(pre.processes)

\* C30: one iteration of round robin for a known process. If the dequeued
\* request is within the available instances in every dimension, dimension i
\* is granted min(request[i], time_quantum), and a process left with unmet
\* need goes to the tail of the queue with its remaining need as its request.
\* If not, the ledger stays as it is and the same request goes to the tail.
C30_RoundRobinIteration ==
  [][(rr.running /\ rr.queue # <<>> /\ Lookup(processes, Head(rr.queue).pid) # 0) =>
       LET pid == Head(rr.queue).pid
           request == Head(rr.queue).request
           k == Lookup(processes, pid)
           quantum(i) == IF request[i] <= rr.time_quantum
                           THEN request[i] ELSE rr.time_quantum
       IN IF \A i \in 1..Len(request) : request[i] <= resources[i].available_instances
            THEN /\ \A i \in 1..Len(request) :
                      /\ processes'[k].allocated_resources[i]
                           = processes[k].allocated_resources[i] + quantum(i)
                      /\ processes'[k].need_resources[i]
                           = processes[k].need_resources[i] - quantum(i)
                      /\ resources'[i].available_instances
                           = resources[i].available_instances - quantum(i)
                 /\ \A m \in 1..Len(processes) : m # k => processes'[m] = processes[m]
                 /\ (\E i \in 1..Len(request) : processes'[k].need_resources[i] > 0)
                      => rr'.queue =
                           Append(Tail(rr.queue),
                                  [pid |-> pid,
                                   request |-> [i \in 1..Len(request) |->
                                      IF processes'[k].need_resources[i] > 0
                                        THEN processes'[k].need_resources[i] ELSE 0]])
            ELSE /\ processes' = processes
                 /\ resources' = resources
                 /\ rr'.queue = Append(Tail(rr.queue), Head(rr.queue))]_vars

\* The first request of the call was granted in part and went back to the
\* queue with another vector: what the process still needs.
C30_Witness ==
  /\ rr.running
  /\ Len(rr.results) = 1
  /\ rr.results[1].granted
  /\ processes # pre.processes
  /\ rr.queue # <<>>
  /\ rr.queue[Len(rr.queue)].pid = last.args.requests[1].pid
  /\ rr.queue[Len(rr.queue)].request # last.args.requests[1].request

\* C31: round_robin_allocation returns with an empty queue and with
\* need_resources all zero for every process of the ledger that the batch
\* names; and a request leaves the queue only if its process is unknown or
\* has need_resources all zero after the iteration.
C31_ReturnsWhenSatisfied ==
  [][/\ (rr.running /\ ~rr'.running) =>
          /\ rr.queue = <<>>
          /\ \A n \in 1..Len(last.args.requests) :
               LET k == Lookup(processes', last.args.requests[n].pid)
               IN k # 0 => \A i \in 1..Len(processes'[k].need_resources) :
                             processes'[k].need_resources[i] = 0
     /\ (rr.running /\ rr'.running /\ Len(rr'.queue) < Len(rr.queue)) =>
          LET k == Lookup(processes, Head(rr.queue).pid)
          IN k # 0 => \A i \in 1..Len(processes'[k].need_resources) :
                        processes'[k].need_resources[i] = 0]_vars

\* The call has returned after more than one iteration; it named a process
\* of the ledger with a request below its max demand.
C31_Witness ==
  /\ last.op = "round_robin_allocation"
  /\ ~rr.running
  /\ last.result # None
  /\ Len(last.result[1]) > Len(last.args.requests)
  /\ \E n \in 1..Len(last.args.requests) :
       LET k == Lookup(pre.processes, last.args.requests[n].pid)
       IN /\ k # 0
          /\ last.args.requests[n].request # pre.processes[k].max_resources
          /\ processes[k].allocated_resources = pre.processes[k].max_resources
          /\ \E i \in 1..Len(pre.processes[k].max_resources) :
               pre.processes[k].max_resources[i] > 0

\* C32: in every state reached from a constructed ledger by the allocation
\* and release calls, 0 <= available_instances <= total_instances for every
\* resource.
C32_AvailabilityBounds ==
  \A i \in 1..Len(resources) :
    /\ 0 <= resources[i].available_instances
    /\ resources[i].available_instances <= resources[i].total_instances

\* C33: need_resources is max_resources - allocated_resources for every
\* process and resource in every state the calls reach, granted or denied,
\* and max_resources stays as it was built.
C33_NeedIsMaxMinusAllocated ==
  /\ Len(processes) = Len(built.processes)
  /\ \A k \in 1..Len(processes) :
       /\ processes[k].max_resources = built.processes[k].max_resources
       /\ \A i \in 1..Len(processes[k].max_resources) :
            processes[k].need_resources[i]
              = processes[k].max_resources[i] - processes[k].allocated_resources[i]

\* A release has succeeded after another call changed the allocations.
C33_Witness ==
  /\ last.op = "deallocate_resources"
  /\ last.result.success
  /\ processes # pre.processes
  /\ pre.processes # built.processes

\* C34: simulate_request, fcfs_allocation, priority_allocation,
\* round_robin_allocation and deallocate_resources leave, for every resource,
\* available_instances plus the allocations of all processes at the value it
\* had before the call, whatever that value was.
C34_UnitsPreserved ==
  last.op \in {"simulate_request", "fcfs_allocation", "priority_allocation",
               "round_robin_allocation", "deallocate_resources"} =>
    \A i \in 1..Len(resources) :
      resources[i].available_instances + Allocated(processes, i)
        = pre.resources[i].available_instances + Allocated(pre.processes, i)

\* A release has changed a ledger whose units do not add up to the total.
C34_Witness ==
  /\ last.op = "deallocate_resources"
  /\ last.result.success
  /\ processes # pre.processes
  /\ \E i \in 1..Len(resources) :
       pre.resources[i].available_instances + Allocated(pre.processes, i)
         # pre.resources[i].total_instances

\* C35: check_starvation returns the pids of the processes whose wait_time is
\* above the threshold and that need more of some resource, in the order of
\* the input, and changes neither the processes nor the resources.
C35_StarvedListed ==
  last.op = "check_starvation" =>
    LET flagged == {k \in 1..Len(pre.processes) :
                      /\ pre.processes[k].wait_time > last.args.time_threshold
                      /\ \E i \in 1..Len(pre.processes[k].need_resources) :
                           pre.processes[k].need_resources[i] > 0}
        nth(n) == CHOOSE k \in flagged : Cardinality({m \in flagged : m < k}) = n - 1
    IN /\ Len(last.result) = Cardinality(flagged)
       /\ \A n \in 1..Len(last.result) : last.result[n] = pre.processes[nth(n)].pid
       /\ Ledger = pre

\* One process is listed; the other is not, although it needs resources: it
\* has waited exactly as long as the threshold.
C35_Witness ==
  /\ last.op = "check_starvation"
  /\ Len(last.result) = 1
  /\ \E k \in 1..Len(processes) :
       /\ processes[k].wait_time = last.args.time_threshold
       /\ \E i \in 1..Len(processes[k].need_resources) : processes[k].need_resources[i] > 0

\* C36: after an fcfs_allocation run in which a request of a process was
\* denied while the process still needs resources, the wait_time of that
\* process is greater than before the run.
C36_WaitTimeGrows ==
  (last.op = "fcfs_allocation" /\ last.raised = None) =>
    \A n \in 1..Len(last.args.requests) :
      LET k == Lookup(processes, last.args.requests[n].pid)
      IN (/\ k # 0
          /\ ~last.result[n].granted
          /\ \E i \in 1..Len(processes[k].need_resources) :
               processes[k].need_resources[i] > 0)
           => processes[k].wait_time > pre.processes[k].wait_time

\* C37: under any sequence of produce and consume calls the buffer holds
\* between 0 and buffer_size items, full.value is the number of items and
\* empty.value the number of free slots; produce on a full buffer and consume
\* on an empty one return success = false and leave the buffer as it was; a
\* successful produce appends its item and a successful consume removes the
\* oldest one, so items leave in the order they came.
C37_BoundedBuffer ==
  /\ 0 <= Len(sync.buffer)
  /\ Len(sync.buffer) <= sync.buffer_size
  /\ sync.full.value = Len(sync.buffer)
  /\ sync.empty.value = sync.buffer_size - Len(sync.buffer)
  /\ last.op = "produce" =>
       /\ Len(sync_pre.buffer) = sync_pre.buffer_size =>
            ~last.result.success /\ sync.buffer = sync_pre.buffer
       /\ last.result.success => sync.buffer = Append(sync_pre.buffer, last.args.item)
  /\ last.op = "consume" =>
       /\ sync_pre.buffer = <<>> =>
            ~last.result.success /\ sync.buffer = sync_pre.buffer
       /\ last.result.success =>
            /\ sync_pre.buffer # <<>>
            /\ sync_pre.buffer = <<sync_pre.buffer[1]>> \o sync.buffer

\* The older of two different items has been consumed.
C37_Witness ==
  /\ last.op = "consume"
  /\ last.result.success
  /\ Len(sync_pre.buffer) = 2
  /\ sync_pre.buffer[1] # sync_pre.buffer[2]
  /\ sync.buffer = <<sync_pre.buffer[2]>>

\* C38: with two or more philosophers, a philosopher whose state is 'eating'
\* owns its left and its right chopstick, no two neighbours eat at the same
\* time, and after a failed pickup the philosopher holds no chopstick that it
\* did not hold before the call.
Right(i) == (i + 1) % sync.num_philosophers

Holds(dp, i, c) == dp.chopsticks[c].locked /\ dp.chopsticks[c].owner = Some(i)

C38_EatingOwnsBoth ==
  /\ \A i \in 0..(sync.num_philosophers - 1) :
       sync.states[i] = "eating" =>
         /\ Holds(sync, i, i)
         /\ Holds(sync, i, Right(i))
         /\ sync.states[Right(i)] # "eating"
  /\ (last.op = "pickup_chopsticks" /\ ~last.result.success) =>
       LET i == last.args.philosopher_id
       IN \A c \in {i, Right(i)} : Holds(sync, i, c) => Holds(sync_pre, i, c)

\* A philosopher took its free left chopstick, found its right one with a
\* neighbour that is eating, and put the left one down again.
C38_Witness ==
  /\ last.op = "pickup_chopsticks"
  /\ ~last.result.success
  /\ LET i == last.args.philosopher_id
     IN /\ ~sync_pre.chopsticks[i].locked
        /\ ~sync.chopsticks[i].locked
        /\ sync.states[Right(i)] = "eating"
        /\ Len(sync.chopsticks[Right(i)].waiting_queue) > 0

====
